---- MODULE Spec2Model ----
(***************************************************************************)
(* Archit Search: dependency analysis and violation detection engine.      *)
(*                                                                         *)
(* The module models DeepCycleDetector (deep circular dependencies and the *)
(* building of its graph), GraphAnalyzer (direct circular dependencies),   *)
(* RuleEngine (rules, layers, encapsulation), SmartAdvisor, the learning    *)
(* and anomaly detection of AIKernel, the part of ValidationService that   *)
(* calls them and its timer, LRUCache, ImportParser and MetricsCalculator. *)
(*                                                                         *)
(* Several specifications share the variables; each one holds the          *)
(* variables of the other components at their initial values.              *)
(*   SpecRing   DeepCycleDetector on rings (simple cycles) of every size   *)
(*   SpecDfs    DeepCycleDetector on every small dependency graph          *)
(*   SpecDirect   GraphAnalyzer.checkCycle over small disks                *)
(*   SpecValidate ValidationService.validateFile over the same disks       *)
(*   SpecRules    RuleEngine.validate over small rule and layer lists      *)
(*   SpecConfigured    validateFile with malformed rules and layers        *)
(*   SpecEncapsulation RuleEngine.checkEncapsulation                       *)
(*   SpecAdvisor       SmartAdvisor.analyze                                *)
(*   SpecBuild         buildGraph on a file system that changes            *)
(*   SpecSingleFlight  buildGraph and learn with calls arriving meanwhile  *)
(*   SpecVersions      validateFile on documents that are edited           *)
(*   SpecLearn         AIKernel.learn and detectAnomaly                    *)
(*   SpecChord         DeepCycleDetector on rings with one more import     *)
(*   SpecResolve       DeepCycleDetector._resolveImportPath                *)
(*   SpecLru           LRUCache under get, set and has                     *)
(*   SpecTimer         ValidationService.triggerValidation and its timer   *)
(*   SpecParse         ImportParser.parse                                  *)
(*   SpecMetrics       MetricsCalculator.analyze                           *)
(***************************************************************************)
EXTENDS Integers, Sequences, FiniteSets, TLC

VARIABLES
    dependencyGraph,    \* DeepCycleDetector.dependencyGraph: path -> list of paths
    graphKeys,          \* insertion order of the keys of dependencyGraph (a JS Map)
    deepCycleMaxDepth,  \* the setting architSearch.deepCycleMaxDepth
    lastCall,           \* the last operation called and its argument
    deepResult,         \* what the last detectDeepCycle returned
    allCycles,          \* what the last getAllCycles returned
    disk,               \* the file system: path -> [imports, mtime] of the existing files,
                        \* with the state of the file where buildGraph and learn read it
    importsCache,       \* GraphAnalyzer.importsCache: LRU entries, oldest first
    config,             \* the architSearch settings validateFile reads
    validationCache,    \* ValidationService.validationCache: fsPath -> entry
    directCall,         \* the last GraphAnalyzer / ValidationService call
    directResult,       \* what the last checkCycle returned
    reported,           \* the violations the last validateFile handed to the UI
    uncaught,           \* the last validateFile ended with an exception nobody caught
    docVersion,         \* document.version of the open documents: fsPath -> number
    ruleCall,           \* the last RuleEngine.validate call
    ruleResult,         \* what it returned
    fileTimestamps,     \* DeepCycleDetector.fileTimestamps: path -> mtime
    isBuilding,         \* DeepCycleDetector.isBuilding
    activeBuilds,       \* the number of buildGraph calls inside their try block
    buildPending,       \* the files the running buildGraph has yet to process
    buildCall,          \* the last buildGraph call and how it ended
    parsedFiles,        \* the files the running or last buildGraph parsed
    skippedFiles,       \* the files missing, unreadable or too large when last processed
    cleanPasses,        \* the lists buildGraph went through since the last file change
    resolvedPath,       \* what the last _resolveImportPath returned, <<>> for null
    vectors,            \* AIKernel.vectors: the files that have a term vector
    importCounts,       \* AIKernel.projectStats.importCounts
    statsModel,         \* AIKernel.statsModel
    isLearning,         \* AIKernel.isLearning
    activeLearns,       \* the number of learn calls inside their try block
    learnPending,       \* the files the running learn has yet to process
    aiCall,             \* the last SmartAdvisor / AIKernel call
    aiResult,           \* what it returned
    lruCache,           \* LRUCache.cache of one cache: its entries, oldest first
    lruLimit,           \* LRUCache.limit of that cache
    lruUses,            \* the keys that get hit or set, least recently used first
    lruCall,            \* the last get, set or has on that cache
    validationTimeout,  \* ValidationService.validationTimeout: the handle of the last timer, 0 for undefined
    timers,             \* the timers setTimeout has set that are neither cleared nor fired
    shown,              \* the document the status bar and the sidebar show results of, <<>> when reset
    timerCall,          \* the last triggerValidation or timer callback
    parseCall,          \* the last ImportParser.parse: its text and language
    parsedImports,      \* the records it returned
    metricsCall,        \* the last MetricsCalculator.analyze: its file paths
    couplingData        \* MetricsCalculator.couplingData

cycleVars == <<dependencyGraph, graphKeys, deepCycleMaxDepth, lastCall, deepResult, allCycles>>

directVars ==
    <<disk, importsCache, config, validationCache, directCall, directResult, reported,
      uncaught, docVersion>>

ruleVars == <<ruleCall, ruleResult>>

buildVars ==
    <<fileTimestamps, isBuilding, activeBuilds, buildPending, buildCall, parsedFiles,
      skippedFiles, cleanPasses, resolvedPath>>

aiVars ==
    <<vectors, importCounts, statsModel, isLearning, activeLearns, learnPending,
      aiCall, aiResult>>

lruVars == <<lruCache, lruLimit, lruUses, lruCall>>

timerVars == <<validationTimeout, timers, shown, timerCall>>

parserVars == <<parseCall, parsedImports>>

metricsVars == <<metricsCall, couplingData>>

utilVars == <<lruVars, timerVars, parserVars, metricsVars>>

vars == <<cycleVars, directVars, ruleVars, buildVars, aiVars, utilVars>>

----------------------------------------------------------------------------
(* Bounds of the model *)

\* Largest ring (simple cycle) built in SpecRing.
MaxRing == 12

\* Number of files of the small graphs of SpecDfs.
NumFiles == 3

\* Largest number of edges of the small graphs of SpecDfs.
MaxEdges == 3

\* Largest number of files on the disk of SpecDirect.
MaxDiskFiles == 2

\* Longest list of rules and longest list of layers of SpecRules.
MaxRules == 2

MaxLayers == 3

----------------------------------------------------------------------------
(* Paths.  A path is <<file number, spelling>>: "lc" is the path as the    *)
(* file system lists it (lower case here), "uc" the same path written      *)
(* with upper-case letters.  All paths use forward slashes.                *)

File(i) == <<i, "lc">>

Upper(i) == <<i, "uc">>

\* String.prototype.toLowerCase on a path
toLowerCase(p) == <<p[1], "lc">>

\* file.toLowerCase().replace(/\\/g, '/'): the paths hold no backslash
NormalizeFile(p) == toLowerCase(p)

----------------------------------------------------------------------------
(* DeepCycleDetector *)

\* CONFIG.MAX_DEPTH
MAX_DEPTH == 10

\* The documented range and default of architSearch.deepCycleMaxDepth
DepthSettingMin == 2

DepthSettingMax == 20

DepthSettingDefault == 10

\* this.dependencyGraph.get(file) || []
GraphGet(g, file) == IF file \in DOMAIN g THEN g[file] ELSE <<>>

\* Mutant: the cutoff one level early
DepthExceededAtLimit(depth) == depth >= MAX_DEPTH

\* if (depth > CONFIG.MAX_DEPTH) return false;
DepthExceeded(depth) == depth > MAX_DEPTH

\* The state the recursion shares: the two sets, the path array, and the
\* value returned by the call.
DfsStart == [visited |-> {}, stack |-> {}, path |-> <<>>, found |-> FALSE]

\* if (visited.has(normalizedFile)) return false;
DfsVisitedHit(st) == [st EXCEPT !.found = FALSE]

\* if (recursionStack.has(normalizedFile)) { cyclePath.push(file); return true; }
DfsStackHit(st, file) == [st EXCEPT !.path = Append(@, file), !.found = TRUE]

\* visited.add; recursionStack.add; cyclePath.push
DfsEnter(st, file) ==
    [st EXCEPT !.visited = @ \cup {NormalizeFile(file)},
               !.stack = @ \cup {NormalizeFile(file)},
               !.path = Append(@, file),
               !.found = FALSE]

\* Mutant: the file is left on the recursion stack
DfsLeaveKeepsStack(st, file) ==
    [st EXCEPT !.path = SubSeq(@, 1, Len(@) - 1), !.found = FALSE]

\* cyclePath.pop(); recursionStack.delete(normalizedFile); return false;
DfsLeave(st, file) ==
    [st EXCEPT !.path = SubSeq(@, 1, Len(@) - 1),
               !.stack = @ \ {NormalizeFile(file)},
               !.found = FALSE]

RECURSIVE Dfs(_, _, _, _)
RECURSIVE DfsDeps(_, _, _, _, _)

\* _dfs(file, visited, recursionStack, cyclePath, depth)
Dfs(g, file, st, depth) ==
    IF DepthExceeded(depth) THEN [st EXCEPT !.found = FALSE]
    ELSE IF NormalizeFile(file) \in st.stack THEN DfsStackHit(st, file)
    ELSE IF NormalizeFile(file) \in st.visited THEN DfsVisitedHit(st)
    ELSE LET r == DfsDeps(g, GraphGet(g, file), 1, DfsEnter(st, file), depth)
         IN  IF r.found THEN r ELSE DfsLeave(r, file)

\* for (const dep of dependencies) if (this._dfs(dep, ..., depth + 1)) return true;
DfsDeps(g, deps, i, st, depth) ==
    IF i > Len(deps) THEN [st EXCEPT !.found = FALSE]
    ELSE LET r == Dfs(g, deps[i], st, depth + 1)
         IN  IF r.found THEN r ELSE DfsDeps(g, deps, i + 1, r, depth)

\* detectDeepCycle returns null
NoCycle == [hasCycle |-> FALSE, cycle |-> <<>>, depth |-> 0]

\* if (hasCycle && cyclePath.length > 2)
ReportsCycle(r) == r.found /\ Len(r.path) > 2

\* detectDeepCycle(startFile)
detectDeepCycle(g, startFile) ==
    LET r == Dfs(g, startFile, DfsStart, 0)
    IN  IF ReportsCycle(r)
        THEN [hasCycle |-> TRUE, cycle |-> r.path, depth |-> Len(r.path) - 1]
        ELSE NoCycle

RECURSIVE GetAllCyclesFrom(_, _, _, _, _)

\* The loop of getAllCycles over this.dependencyGraph.keys(), from the i-th key
GetAllCyclesFrom(g, keys, i, found, globalVisited) ==
    IF i > Len(keys) THEN found
    ELSE IF toLowerCase(keys[i]) \in globalVisited
         THEN GetAllCyclesFrom(g, keys, i + 1, found, globalVisited)
         ELSE LET result == detectDeepCycle(g, keys[i])
              IN  IF result.hasCycle
                  THEN GetAllCyclesFrom(g, keys, i + 1,
                           Append(found, [cycle |-> result.cycle, depth |-> result.depth]),
                           globalVisited \cup
                               {toLowerCase(result.cycle[j]) : j \in 1..Len(result.cycle)})
                  ELSE GetAllCyclesFrom(g, keys, i + 1, found, globalVisited)

\* getAllCycles()
getAllCycles(g, keys) == GetAllCyclesFrom(g, keys, 1, <<>>, {})

\* this.dependencyGraph.set(filePath, resolvedImports): a new key goes last,
\* a key already in the Map keeps its place
MapSetKeys(keys, file) ==
    IF \E i \in 1..Len(keys) : keys[i] = file THEN keys ELSE Append(keys, file)

MapSet(g, file, deps) ==
    [p \in DOMAIN g \cup {file} |-> IF p = file THEN deps ELSE g[p]]

----------------------------------------------------------------------------
(* Paths as text.  GraphAnalyzer compares paths character by character, so *)
(* the paths it is given are sequences of one-character strings.           *)

ToLowerChar(c) ==
    IF c = "A" THEN "a" ELSE IF c = "B" THEN "b" ELSE IF c = "J" THEN "j"
    ELSE IF c = "P" THEN "p" ELSE IF c = "R" THEN "r" ELSE IF c = "U" THEN "u" ELSE c

\* path.toLowerCase().replace(/\\/g, '/')
NormalizePath(p) ==
    [i \in 1..Len(p) |-> IF p[i] = "\\" THEN "/" ELSE ToLowerChar(p[i])]

\* String.prototype.startsWith
StartsWith(a, b) == Len(b) <= Len(a) /\ SubSeq(a, 1, Len(b)) = b

\* The index of the last occurrence of character c in p, 0 when there is none
LastIndexOf(p, c) ==
    IF \E i \in 1..Len(p) : p[i] = c
    THEN CHOOSE i \in 1..Len(p) : p[i] = c /\ \A j \in (i + 1)..Len(p) : p[j] # c
    ELSE 0

\* normalizedB.replace(/\.[^/.]+$/, ''): the text from the last dot on is
\* removed when at least one character follows it and none of them is a slash
StripExtension(p) ==
    LET d == LastIndexOf(p, ".")
    IN  IF d > 0 /\ d < Len(p) /\ \A j \in (d + 1)..Len(p) : p[j] # "/"
        THEN SubSeq(p, 1, d - 1)
        ELSE p

\* path.dirname (posix)
Dirname(p) ==
    LET k == LastIndexOf(p, "/")
    IN  IF k = 0 THEN <<".">> ELSE IF k = 1 THEN <<"/">> ELSE SubSeq(p, 1, k - 1)

\* path.basename (posix)
Basename(p) == SubSeq(p, LastIndexOf(p, "/") + 1, Len(p))

\* imp.path.startsWith('.')
IsRelativeImport(imp) == StartsWith(imp, <<".">>)

\* path.resolve(dir, importPath) for an absolute dir and an import written
\* as './name' or 'name'
PathResolve(dir, imp) ==
    LET rest == IF StartsWith(imp, <<".", "/">>) THEN SubSeq(imp, 3, Len(imp)) ELSE imp
    IN  IF dir = <<"/">> THEN <<"/">> \o rest ELSE dir \o <<"/">> \o rest

----------------------------------------------------------------------------
(* The file system *)

\* fs.existsSync(path), for a path that is read as a file afterwards
ExistsSync(d, path) == path \in DOMAIN d

\* fs.existsSync(path): the path is a file of the disk, or a directory, that
\* is the root or a directory some file of the disk lies in
PathExists(d, path) ==
    \/ path \in DOMAIN d
    \/ path = <<"/">>
    \/ \E f \in DOMAIN d : StartsWith(f, path \o <<"/">>)

----------------------------------------------------------------------------
(* LRUCache *)

\* new LRUCache(200)
ImportsCacheLimit == 200

\* this.cache.has(key)
LRUHas(c, key) == \E i \in 1..Len(c) : c[i].key = key

\* this.cache.delete(key)
LRUDelete(c, key) == SelectSeq(c, LAMBDA e : e.key # key)

\* The value get(key) returns for a key the cache holds
LRUValue(c, key) == (CHOOSE e \in {c[i] : i \in 1..Len(c)} : e.key = key).val

LRUAfterGetInPlace(c, key) == c

\* The cache after get(key): a hit moves the entry to the newest position
LRUAfterGet(c, key) ==
    IF LRUHas(c, key)
    THEN Append(LRUDelete(c, key), [key |-> key, val |-> LRUValue(c, key)])
    ELSE c

\* set(key, val)
LRUSet(c, limit, key, val) ==
    LET kept == IF Len(c) >= limit THEN Tail(c) ELSE c
    IN  Append(LRUDelete(kept, key), [key |-> key, val |-> val])

----------------------------------------------------------------------------
(* GraphAnalyzer *)

\* _areSameFile(pathA, pathB)
AreSameFile(pathA, pathB) ==
    LET normalizedA == NormalizePath(pathA)
        normalizedB == NormalizePath(pathB)
        normalizedBNoExt == StripExtension(normalizedB)
    IN  \/ normalizedA = normalizedB
        \/ normalizedA = normalizedBNoExt
        \/ StartsWith(normalizedA, normalizedBNoExt)

\* `${filePath}:${stats.mtimeMs}`
ImportsCacheKey(d, filePath) == <<filePath, d[filePath].mtime>>

\* _getFileImports(filePath) for an existing file: the imports it returns
\* and the cache it leaves.  The text of a file is held as the list of the
\* import paths the parser finds in it.
GetFileImports(d, c, filePath) ==
    LET cacheKey == ImportsCacheKey(d, filePath)
    IN  IF LRUHas(c, cacheKey)
        THEN [imports |-> LRUValue(c, cacheKey), cache |-> LRUAfterGet(c, cacheKey)]
        ELSE [imports |-> d[filePath].imports,
              cache |-> LRUSet(c, ImportsCacheLimit, cacheKey, d[filePath].imports)]

\* checkCycle returns null
NoDirectCycle == [isCycle |-> FALSE, message |-> "none"]

\* Some import of targetFile resolves back to sourceFile
ImportsBack(imports, sourceFile, targetFile) ==
    \E i \in 1..Len(imports) :
        /\ IsRelativeImport(imports[i])
        /\ AreSameFile(PathResolve(Dirname(targetFile), imports[i]), sourceFile)

\* checkCycle(sourceFile, targetFile): the result and the cache it leaves
checkCycle(d, c, sourceFile, targetFile) ==
    IF ~ExistsSync(d, targetFile)
    THEN [result |-> NoDirectCycle, cache |-> c]
    ELSE IF AreSameFile(sourceFile, targetFile)
    THEN [result |-> [isCycle |-> TRUE, message |-> "Self-import detected!"], cache |-> c]
    ELSE LET got == GetFileImports(d, c, targetFile)
         IN  IF ImportsBack(got.imports, sourceFile, targetFile)
             THEN [result |-> [isCycle |-> TRUE, message |-> "Circular Dependency Detected!"],
                   cache |-> got.cache]
             ELSE [result |-> NoDirectCycle, cache |-> got.cache]

----------------------------------------------------------------------------
(* Glob matching.  A path or a pattern is a sequence of tokens, the        *)
(* separators "/" and "\\" being tokens of their own; minimatch compares   *)
(* them segment by segment, the segments being what lies between "/".      *)

RECURSIVE SplitFrom(_, _, _, _)
SplitFrom(p, i, cur, acc) ==
    IF i > Len(p) THEN (IF cur = <<>> THEN acc ELSE Append(acc, cur))
    ELSE IF p[i] = "/"
         THEN SplitFrom(p, i + 1, <<>>, IF cur = <<>> THEN acc ELSE Append(acc, cur))
         ELSE SplitFrom(p, i + 1, Append(cur, p[i]), acc)

\* The non-empty segments of a path or pattern
Segments(p) == SplitFrom(p, 1, <<>>, <<>>)

\* One segment against one pattern segment: '*' matches any segment
SegmentMatch(seg, pat) == pat = <<"*">> \/ pat = seg

RECURSIVE GlobMatch(_, _)
\* minimatch's matchOne: '**' stands for any number of segments, and as the
\* last pattern segment for at least one
GlobMatch(segs, pats) ==
    IF pats = <<>> THEN segs = <<>>
    ELSE IF Head(pats) = <<"**">>
         THEN IF Len(pats) = 1 THEN segs # <<>>
              ELSE GlobMatch(segs, Tail(pats))
                   \/ (segs # <<>> /\ GlobMatch(Tail(segs), pats))
         ELSE /\ segs # <<>>
              /\ SegmentMatch(Head(segs), Head(pats))
              /\ GlobMatch(Tail(segs), Tail(pats))

\* minimatch(path, pattern)
Minimatch(path, pattern) == GlobMatch(Segments(path), Segments(pattern))

\* minimatch(path, pattern, { matchBase: true }): a pattern without a slash
\* is matched against the last segment of the path
MinimatchBase(path, pattern) ==
    LET segs == Segments(path)
        pats == Segments(pattern)
    IN  IF Len(pats) = 1 /\ Len(segs) > 1
        THEN GlobMatch(<<segs[Len(segs)]>>, pats)
        ELSE GlobMatch(segs, pats)

----------------------------------------------------------------------------
(* RuleEngine *)

\* _normalizePath(filePath): filePath.replace(/\\/g, '/')
NormalizeSlashes(filePath) ==
    [i \in 1..Len(filePath) |-> IF filePath[i] = "\\" THEN "/" ELSE filePath[i]]

\* validate returns null
NoViolation == [isViolation |-> FALSE, message |-> <<>>]

\* rule.message || `Violation: '${source}' cannot import from '${pattern}'`
RuleMessage(rule, source, pattern) ==
    IF rule.message # "" THEN <<rule.message>>
    ELSE <<"Violation:", source, "cannot import from", pattern>>

\* The index of the first pattern of the list that matches target, 0 if none
FirstDisallowed(patterns, target) ==
    IF \E k \in 1..Len(patterns) : MinimatchBase(target, patterns[k])
    THEN CHOOSE k \in 1..Len(patterns) :
             /\ MinimatchBase(target, patterns[k])
             /\ \A j \in 1..(k - 1) : ~MinimatchBase(target, patterns[j])
    ELSE 0

\* The conditions of _checkRuleViolations under which a rule returns a violation
RuleFires(rule, source, target) ==
    /\ MinimatchBase(source, rule.source)
    /\ rule.hasDisallow
    /\ FirstDisallowed(rule.disallow, target) > 0

RECURSIVE CheckRuleViolationsFrom(_, _, _, _)
CheckRuleViolationsFrom(source, target, rules, i) ==
    IF i > Len(rules) THEN NoViolation
    ELSE IF RuleFires(rules[i], source, target)
         THEN [isViolation |-> TRUE,
               message |-> RuleMessage(rules[i], source,
                               rules[i].disallow[FirstDisallowed(rules[i].disallow, target)])]
         ELSE CheckRuleViolationsFrom(source, target, rules, i + 1)

\* _checkRuleViolations(source, target, rules)
CheckRuleViolations(source, target, rules) ==
    CheckRuleViolationsFrom(source, target, rules, 1)

\* Mutant: the last matching layer
FindLayerIndexLast(filePath, layers) ==
    IF \E i \in 1..Len(layers) : Minimatch(filePath, layers[i].pattern)
    THEN (CHOOSE i \in 1..Len(layers) :
              /\ Minimatch(filePath, layers[i].pattern)
              /\ \A j \in (i + 1)..Len(layers) : ~Minimatch(filePath, layers[j].pattern)) - 1
    ELSE -1

\* _findLayerIndex(filePath, layers): the index, from 0, of the first layer
\* whose pattern matches, or -1
FindLayerIndex(filePath, layers) ==
    IF \E i \in 1..Len(layers) : Minimatch(filePath, layers[i].pattern)
    THEN (CHOOSE i \in 1..Len(layers) :
              /\ Minimatch(filePath, layers[i].pattern)
              /\ \A j \in 1..(i - 1) : ~Minimatch(filePath, layers[j].pattern)) - 1
    ELSE -1

\* _checkLayerViolations(source, target, layers)
CheckLayerViolations(source, target, layers) ==
    IF Len(layers) = 0 THEN NoViolation
    ELSE LET sourceLayerIndex == FindLayerIndex(source, layers)
             targetLayerIndex == FindLayerIndex(target, layers)
         IN  IF sourceLayerIndex = -1 \/ targetLayerIndex = -1 THEN NoViolation
             ELSE IF sourceLayerIndex < targetLayerIndex
                  THEN [isViolation |-> TRUE,
                        message |-> <<"Layer Violation:",
                                      layers[sourceLayerIndex + 1].name,
                                      layers[targetLayerIndex + 1].name>>]
                  ELSE NoViolation

\* Mutant: the layers are consulted first
validateLayersFirst(sourceRelativePath, targetRelativePath, rules, layers) ==
    LET normalizedSource == NormalizeSlashes(sourceRelativePath)
        normalizedTarget == NormalizeSlashes(targetRelativePath)
        layerViolation == CheckLayerViolations(normalizedSource, normalizedTarget, layers)
    IN  IF layerViolation.isViolation THEN layerViolation
        ELSE CheckRuleViolations(normalizedSource, normalizedTarget, rules)

\* validate(sourceRelativePath, targetRelativePath, rules, layers)
validate(sourceRelativePath, targetRelativePath, rules, layers) ==
    LET normalizedSource == NormalizeSlashes(sourceRelativePath)
        normalizedTarget == NormalizeSlashes(targetRelativePath)
        ruleViolation == CheckRuleViolations(normalizedSource, normalizedTarget, rules)
    IN  IF ruleViolation.isViolation THEN ruleViolation
        ELSE CheckLayerViolations(normalizedSource, normalizedTarget, layers)

\* A pattern minimatch rejects with a TypeError: a value that is no string
\* (a rule without source, a layer without pattern) or a text longer than
\* 65536 characters
InvalidPattern == <<"#invalid">>

\* minimatch(path, pattern) throws
MinimatchThrows(pattern) == pattern = InvalidPattern

\* The loop over rule.disallow reaches a pattern minimatch rejects before one
\* that matches the target
DisallowThrows(patterns, target) ==
    \E k \in 1..Len(patterns) :
        /\ MinimatchThrows(patterns[k])
        /\ \A j \in 1..(k - 1) : ~MinimatchBase(target, patterns[j])

RECURSIVE CheckRuleViolationsThrowsFrom(_, _, _, _)
\* _checkRuleViolations throws: no try statement surrounds its minimatch calls
CheckRuleViolationsThrowsFrom(source, target, rules, i) ==
    IF i > Len(rules) THEN FALSE
    ELSE IF MinimatchThrows(rules[i].source) THEN TRUE
    ELSE IF MinimatchBase(source, rules[i].source) /\ rules[i].hasDisallow
         THEN IF DisallowThrows(rules[i].disallow, target) THEN TRUE
              ELSE IF FirstDisallowed(rules[i].disallow, target) > 0 THEN FALSE
              ELSE CheckRuleViolationsThrowsFrom(source, target, rules, i + 1)
         ELSE CheckRuleViolationsThrowsFrom(source, target, rules, i + 1)

\* _findLayerIndex throws: a pattern minimatch rejects comes before the first
\* layer that matches
FindLayerIndexThrows(filePath, layers) ==
    \E i \in 1..Len(layers) :
        /\ MinimatchThrows(layers[i].pattern)
        /\ \A j \in 1..(i - 1) : ~Minimatch(filePath, layers[j].pattern)

\* validate throws instead of returning
validateThrows(sourceRelativePath, targetRelativePath, rules, layers) ==
    LET normalizedSource == NormalizeSlashes(sourceRelativePath)
        normalizedTarget == NormalizeSlashes(targetRelativePath)
    IN  \/ CheckRuleViolationsThrowsFrom(normalizedSource, normalizedTarget, rules, 1)
        \/ /\ ~CheckRuleViolations(normalizedSource, normalizedTarget, rules).isViolation
           /\ Len(layers) > 0
           /\ \/ FindLayerIndexThrows(normalizedSource, layers)
              \/ FindLayerIndexThrows(normalizedTarget, layers)

\* INDEX_EXTENSIONS
IndexExtensions == {<<"j", "s">>, <<"t", "s">>, <<"j", "s", "x">>, <<"t", "s", "x">>}

\* path.join(dir, name)
PathJoin(dir, name) ==
    IF dir = <<"/">> THEN <<"/">> \o name
    ELSE IF dir = <<".">> THEN name
    ELSE dir \o <<"/">> \o name

\* checkEncapsulation(targetAbsPath): whether it returns a violation
checkEncapsulation(d, targetAbsPath) ==
    LET dir == Dirname(targetAbsPath)
        filename == Basename(targetAbsPath)
    IN  IF StartsWith(filename, <<"i", "n", "d", "e", "x", ".">>) THEN FALSE
        ELSE \E ext \in IndexExtensions :
                 ExistsSync(d, PathJoin(dir, <<"i", "n", "d", "e", "x", ".">> \o ext))

----------------------------------------------------------------------------
(* ValidationService *)

\* The workspace folder
WorkspaceRoot == <<"/">>

\* vscode.workspace.asRelativePath(path, false)
AsRelativePath(path) ==
    IF StartsWith(path, WorkspaceRoot)
    THEN SubSeq(path, Len(WorkspaceRoot) + 1, Len(path))
    ELSE path

\* _createViolation for the import at position imp of the document
ImportViolation(kind, imp, message) == [kind |-> kind, imp |-> imp, message |-> message]

\* resolvedAbsolutePath = path.resolve(currentDir, imp.path)
ResolvedAbsolutePath(d, docPath, importPath) ==
    PathResolve(Dirname(docPath), importPath)

\* _checkImport(imp, doc, ...) with the semantic analysis switched off: the
\* violations of one import and the imports cache it leaves
CheckImport(d, c, cfg, docPath, imports, imp) ==
    LET importPath == imports[imp]
        relative == IsRelativeImport(importPath)
        resolvedAbsolutePath == ResolvedAbsolutePath(d, docPath, importPath)
        resolvedRelativePath ==
            IF relative THEN AsRelativePath(resolvedAbsolutePath) ELSE importPath
        archResult == validate(AsRelativePath(docPath), resolvedRelativePath,
                               cfg.rules, cfg.layers)
        encapsulation ==
            IF cfg.enforceEncapsulation /\ checkEncapsulation(d, resolvedAbsolutePath)
            THEN <<ImportViolation("encapsulation", imp, <<"Encapsulation Warning">>)>>
            ELSE <<>>
        cycleResult == checkCycle(d, c, docPath, resolvedAbsolutePath)
    IN  IF archResult.isViolation
        THEN [violations |-> <<ImportViolation("architecture", imp, archResult.message)>>,
              cache |-> c]
        ELSE IF ~relative THEN [violations |-> <<>>, cache |-> c]
        ELSE IF ~cfg.checkCycles THEN [violations |-> encapsulation, cache |-> c]
        ELSE [violations |->
                  encapsulation \o
                  (IF cycleResult.result.isCycle
                   THEN <<ImportViolation("cycle", imp, <<cycleResult.result.message>>)>>
                   ELSE <<>>),
              cache |-> cycleResult.cache]

RECURSIVE CheckImportsFrom(_, _, _, _, _, _, _)
\* for (const imp of imports) violations.push(...this._checkImport(...))
CheckImportsFrom(d, c, cfg, docPath, imports, imp, violations) ==
    IF imp > Len(imports) THEN [violations |-> violations, cache |-> c]
    ELSE LET r == CheckImport(d, c, cfg, docPath, imports, imp)
         IN  CheckImportsFrom(d, r.cache, cfg, docPath, imports, imp + 1,
                              violations \o r.violations)

\* The analysis of validateFile for a document whose text holds `imports`,
\* with anomaly detection, unused imports and deep cycles switched off
RunAnalysis(d, c, cfg, docPath, imports) ==
    LET godObject ==
            IF Len(imports) > cfg.maxImports
            THEN <<ImportViolation("godObject", 0, <<"God Object">>)>>
            ELSE <<>>
        r == CheckImportsFrom(d, c, cfg, docPath, imports, 1, godObject)
    IN  [violations |-> r.violations,
         stats |-> [importCount |-> Len(imports), anomalyScore |-> "0.0"],
         cache |-> r.cache]

\* _checkImport throws on the import at position imp: engine.validate is its
\* first call
CheckImportThrows(d, cfg, docPath, imports, imp) ==
    LET importPath == imports[imp]
        resolvedRelativePath ==
            IF IsRelativeImport(importPath)
            THEN AsRelativePath(ResolvedAbsolutePath(d, docPath, importPath))
            ELSE importPath
    IN  validateThrows(AsRelativePath(docPath), resolvedRelativePath, cfg.rules, cfg.layers)

\* The loop over the imports of validateFile is left by an exception
RunAnalysisThrows(d, cfg, docPath, imports) ==
    \E imp \in 1..Len(imports) : CheckImportThrows(d, cfg, docPath, imports, imp)

\* The imports cache as the imports checked before the exception left it
CacheBeforeThrow(d, c, cfg, docPath, imports) ==
    LET first == CHOOSE imp \in 1..Len(imports) :
                     /\ CheckImportThrows(d, cfg, docPath, imports, imp)
                     /\ \A j \in 1..(imp - 1) : ~CheckImportThrows(d, cfg, docPath, imports, j)
    IN  CheckImportsFrom(d, c, cfg, docPath, SubSeq(imports, 1, first - 1), 1, <<>>).cache

----------------------------------------------------------------------------
(* DeepCycleDetector.buildGraph *)

\* The extensions _resolveImportPath tries, in order; the last one is ''
ResolveExtensions ==
    <<<<".", "j", "s">>, <<".", "j", "s", "x">>, <<".", "t", "s">>, <<".", "t", "s", "x">>,
      <<".", "m", "j", "s">>, <<".", "c", "j", "s">>, <<>>>>

\* The first path of the list that exists, <<>> (null) when none does
FirstExisting(d, candidates) ==
    IF \E i \in 1..Len(candidates) : PathExists(d, candidates[i])
    THEN candidates[CHOOSE i \in 1..Len(candidates) :
                        /\ PathExists(d, candidates[i])
                        /\ \A j \in 1..(i - 1) : ~PathExists(d, candidates[j])]
    ELSE <<>>

\* _resolveImportPath(fromDir, importPath)
ResolveImportPath(d, fromDir, importPath) ==
    LET basePath == PathResolve(fromDir, importPath)
        withExtension ==
            [i \in 1..Len(ResolveExtensions) |-> basePath \o ResolveExtensions[i]]
        indexPaths ==
            [i \in 1..Len(ResolveExtensions) |->
                PathJoin(basePath, <<"i", "n", "d", "e", "x">> \o ResolveExtensions[i])]
    IN  FirstExisting(d, withExtension \o indexPaths)

RECURSIVE ResolvedImports(_, _, _, _)
\* The loop of _processFileForGraph over the imports of the file
ResolvedImports(d, fileDir, imports, i) ==
    IF i > Len(imports) THEN <<>>
    ELSE LET resolved ==
                 IF IsRelativeImport(imports[i])
                 THEN ResolveImportPath(d, fileDir, imports[i])
                 ELSE <<>>
         IN  (IF resolved # <<>> THEN <<resolved>> ELSE <<>>)
                 \o ResolvedImports(d, fileDir, imports, i + 1)

\* The file is not there, fs.statSync or fs.readFileSync throws, or the file
\* is larger than CONFIG.MAX_FILE_SIZE: _processFileForGraph returns
Unavailable(d, filePath) ==
    \/ ~ExistsSync(d, filePath)
    \/ d[filePath].state \in {"unreadable", "large"}

\* Mutant: the stored time is never found current
TimestampNeverCurrent(ts, d, filePath) == FALSE

\* cachedTime && cachedTime === stats.mtimeMs
TimestampCurrent(ts, d, filePath) ==
    filePath \in DOMAIN ts /\ ts[filePath] = d[filePath].mtime

\* The state buildGraph works on
BuilderState(g, keys, ts, parsed) ==
    [graph |-> g, keys |-> keys, timestamps |-> ts, parsed |-> parsed]

\* _processFileForGraph(filePath)
ProcessFileForGraph(d, st, filePath) ==
    IF Unavailable(d, filePath) THEN st
    ELSE IF TimestampCurrent(st.timestamps, d, filePath) THEN st
    ELSE BuilderState(
             MapSet(st.graph, filePath,
                    ResolvedImports(d, Dirname(filePath), d[filePath].imports, 1)),
             MapSetKeys(st.keys, filePath),
             [p \in DOMAIN st.timestamps \cup {filePath} |->
                 IF p = filePath THEN d[filePath].mtime ELSE st.timestamps[p]],
             st.parsed \cup {filePath})

----------------------------------------------------------------------------
(* Graphs and arguments of the bounded model *)

\* The ring of n files: file i imports file i+1, the last one file 1
Ring(n) == [p \in {File(i) : i \in 1..n} |-> <<File((p[1] % n) + 1)>>]

RingKeys(n) == [i \in 1..n |-> File(i)]

\* A path that no build has listed
MissingFile == File(0)

\* Paths of the small graphs: the files, and file 1 written in upper case
SmallTargets == {File(i) : i \in 1..NumFiles} \cup {Upper(1)}

\* The import lists a build can find in file i: the file as first written
\* (no import or one), or its previous list with one more import at the end
EditedDeps(g, i) ==
    IF File(i) \in DOMAIN g
    THEN {Append(g[File(i)], t) : t \in SmallTargets}
    ELSE {<<>>} \cup {<<t>> : t \in SmallTargets}

RECURSIVE SumLen(_, _)
SumLen(g, ks) ==
    IF ks = {} THEN 0
    ELSE LET k == CHOOSE x \in ks : TRUE IN Len(g[k]) + SumLen(g, ks \ {k})

EdgeCount(g) == SumLen(g, DOMAIN g)

EmptyGraph == [p \in {} |-> <<>>]

NoCall == [op |-> "none", file |-> MissingFile]

----------------------------------------------------------------------------
(* Actions on the DeepCycleDetector *)

\* What the DeepCycleDetector and the depth setting leave alone
CycleFrame == UNCHANGED <<directVars, ruleVars, buildVars, aiVars, utilVars>>

\* _processFileForGraph(file) for an existing, changed file whose relative
\* imports resolve to deps.  Files are numbered in the order of their first
\* insertion into the Map.
ProcessFile(i, deps) ==
    /\ i <= Len(graphKeys) + 1
    /\ deps # GraphGet(dependencyGraph, File(i)) \/ File(i) \notin DOMAIN dependencyGraph
    /\ EdgeCount(MapSet(dependencyGraph, File(i), deps)) <= MaxEdges
    /\ dependencyGraph' = MapSet(dependencyGraph, File(i), deps)
    /\ graphKeys' = MapSetKeys(graphKeys, File(i))
    /\ lastCall' = [op |-> "buildGraph", file |-> File(i)]
    /\ deepResult' = NoCycle
    /\ allCycles' = <<>>
    /\ UNCHANGED deepCycleMaxDepth
    /\ CycleFrame

DetectDeepCycle(startFile) ==
    /\ deepResult' = detectDeepCycle(dependencyGraph, startFile)
    /\ lastCall' = [op |-> "detectDeepCycle", file |-> startFile]
    /\ UNCHANGED <<dependencyGraph, graphKeys, deepCycleMaxDepth, allCycles>>
    /\ CycleFrame

GetAllCycles ==
    /\ allCycles' = getAllCycles(dependencyGraph, graphKeys)
    /\ lastCall' = [op |-> "getAllCycles", file |-> MissingFile]
    /\ UNCHANGED <<dependencyGraph, graphKeys, deepCycleMaxDepth, deepResult>>
    /\ CycleFrame

\* The user edits architSearch.deepCycleMaxDepth; no code reads the setting
ChangeDepthSetting(d) ==
    /\ d # deepCycleMaxDepth
    /\ deepCycleMaxDepth' = d
    /\ lastCall' = [op |-> "changeSetting", file |-> MissingFile]
    /\ UNCHANGED <<dependencyGraph, graphKeys, deepResult, allCycles>>
    /\ CycleFrame

----------------------------------------------------------------------------
(* Disks, documents and arguments of the bounded model of GraphAnalyzer    *)
(* and ValidationService                                                   *)

PathA == <<"/", "a", ".", "j", "s">>

PathB == <<"/", "b", ".", "j", "s">>

PathAB == <<"/", "a", "b", ".", "j", "s">>

\* A file without extension
PathBNoExt == <<"/", "b">>

\* /a.js as a case-insensitive file system also spells it, and in Windows style
PathAUpper == <<"/", "A", ".", "J", "S">>

PathABackslash == <<"\\", "a", ".", "j", "s">>

ImportA == <<".", "/", "a">>

ImportB == <<".", "/", "b">>

ImportAB == <<".", "/", "a", "b">>

ImportAExt == <<".", "/", "a", ".", "j", "s">>

\* An import of a package
ImportPackage == <<"p", "k", "g">>

DiskCandidates == {PathA, PathB, PathAB, PathBNoExt}

FileTexts ==
    {<<>>, <<ImportA>>, <<ImportB>>, <<ImportAB>>, <<ImportAExt>>, <<ImportPackage, ImportA>>}

\* The disks of at most MaxDiskFiles files, each written once
Disks ==
    UNION {[S -> [imports : FileTexts, mtime : {1}]] :
               S \in {T \in SUBSET DiskCandidates : Cardinality(T) <= MaxDiskFiles}}

SourceArgs == {PathA, PathB, PathAB, PathAUpper, PathABackslash}

TargetArgs == DiskCandidates \cup {<<"/", "a">>, <<"/", "a", "b">>, PathAUpper}

\* The settings as the extension reads them when the user has set none,
\* the features this model leaves out switched off
DefaultConfig ==
    [rules |-> <<>>, layers |-> <<>>, maxImports |-> 20,
     enforceEncapsulation |-> TRUE, checkCycles |-> TRUE, enableAI |-> FALSE,
     detectUnusedImports |-> FALSE, checkDeepCycles |-> FALSE]

NoDirectCall == [op |-> "none", source |-> <<>>, target |-> <<>>]

NoReport == [violations |-> <<>>, stats |-> [importCount |-> 0, anomalyScore |-> "0.0"]]

EmptyValidationCache == [p \in {} |-> <<>>]

----------------------------------------------------------------------------
(* Actions on GraphAnalyzer and ValidationService *)

\* What GraphAnalyzer and ValidationService leave alone
DirectFrame == UNCHANGED <<cycleVars, ruleVars, buildVars, aiVars, utilVars>>

\* graph.checkCycle(sourceFile, targetFile)
CheckCycle(sourceFile, targetFile) ==
    LET r == checkCycle(disk, importsCache, sourceFile, targetFile)
    IN  /\ directResult' = r.result
        /\ importsCache' = r.cache
        /\ directCall' = [op |-> "checkCycle", source |-> sourceFile, target |-> targetFile]
        /\ UNCHANGED <<disk, config, validationCache, reported, uncaught, docVersion>>
        /\ DirectFrame

\* Mutant: the version of the cache entry is not compared
CacheHitAnyVersion(cache, docPath, version) == docPath \in DOMAIN cache

\* cached && cached.version === doc.version
CacheHit(cache, docPath, version) ==
    docPath \in DOMAIN cache /\ cache[docPath].version = version

\* validateFile(editor) for the saved document docPath at the given version.
\* No caller catches what the analysis throws: the timer callback ends there,
\* before the cache entry is written and before the UI is updated.
validateFile(docPath, version) ==
    /\ ~config.enableAI /\ ~config.detectUnusedImports /\ ~config.checkDeepCycles
    /\ IF CacheHit(validationCache, docPath, version)
       THEN /\ reported' = [violations |-> validationCache[docPath].violations,
                            stats |-> validationCache[docPath].stats]
            /\ uncaught' = FALSE
            /\ UNCHANGED <<importsCache, validationCache>>
       ELSE IF RunAnalysisThrows(disk, config, docPath, disk[docPath].imports)
       THEN /\ importsCache' =
                   CacheBeforeThrow(disk, importsCache, config, docPath, disk[docPath].imports)
            /\ uncaught' = TRUE
            /\ UNCHANGED <<validationCache, reported>>
       ELSE LET r == RunAnalysis(disk, importsCache, config, docPath, disk[docPath].imports)
            IN  /\ validationCache' =
                       [p \in DOMAIN validationCache \cup {docPath} |->
                           IF p = docPath
                           THEN [version |-> version, violations |-> r.violations,
                                 stats |-> r.stats]
                           ELSE validationCache[p]]
                /\ importsCache' = r.cache
                /\ reported' = [violations |-> r.violations, stats |-> r.stats]
                /\ uncaught' = FALSE
    /\ directCall' = [op |-> "validateFile", source |-> docPath, target |-> <<>>]
    /\ UNCHANGED <<disk, config, directResult, docVersion>>

\* validateFile called for the document
ValidateFile(docPath, version) == validateFile(docPath, version) /\ DirectFrame

\* The user switches architSearch.checkCycles
ToggleCheckCycles ==
    /\ config' = [config EXCEPT !.checkCycles = ~@]
    /\ directCall' = [op |-> "changeSetting", source |-> <<>>, target |-> <<>>]
    /\ UNCHANGED <<disk, importsCache, validationCache, directResult, reported,
                   uncaught, docVersion>>
    /\ DirectFrame

\* The record of a buildGraph call: how it ended, its argument, the graph and
\* the timestamps it found, whether the same list was gone through since the
\* last file change, whether a file changed while it ran, and whether the
\* last call to arrive found isBuilding set
NoBuildCall ==
    [op |-> "none", files |-> <<>>, before |-> <<>>, repeated |-> FALSE,
     disturbed |-> FALSE, dropped |-> FALSE]

\* The fields the DeepCycleDetector constructor sets for buildGraph
BuildIdle ==
    /\ fileTimestamps = [p \in {} |-> 0]
    /\ isBuilding = FALSE
    /\ activeBuilds = 0
    /\ buildPending = <<>>
    /\ buildCall = NoBuildCall
    /\ parsedFiles = {}
    /\ skippedFiles = {}
    /\ cleanPasses = {}
    /\ resolvedPath = <<>>

\* The record of a call of the AIKernel or the SmartAdvisor; dropped: the
\* last learn to arrive found isLearning set
NoAiCall == [op |-> "none", source |-> <<>>, target |-> <<>>, dropped |-> FALSE]

\* analyze and detectAnomaly return nothing to report
NoAdvice == [flagged |-> FALSE, score |-> 0, message |-> <<>>]

\* statsModel = null
NoStatsModel == [learned |-> FALSE, n |-> 0, sum |-> 0, sumSquares |-> 0]

\* AIKernel and SmartAdvisor as constructed
AiIdle ==
    /\ vectors = {}
    /\ importCounts = <<>>
    /\ statsModel = NoStatsModel
    /\ isLearning = FALSE
    /\ activeLearns = 0
    /\ learnPending = <<>>
    /\ aiCall = NoAiCall
    /\ aiResult = NoAdvice

CycleIdle ==
    /\ BuildIdle
    /\ AiIdle
    /\ dependencyGraph = EmptyGraph
    /\ graphKeys = <<>>
    /\ deepCycleMaxDepth = DepthSettingDefault
    /\ lastCall = NoCall
    /\ deepResult = NoCycle
    /\ allCycles = <<>>

\* Every document of the disk d is open at its first version
FirstVersions(d) == [p \in DOMAIN d |-> 1]

\* GraphAnalyzer and ValidationService as constructed, on an empty disk
ServicesIdle ==
    /\ disk = [p \in {} |-> <<>>]
    /\ uncaught = FALSE
    /\ docVersion = FirstVersions(disk)
    /\ importsCache = <<>>
    /\ validationCache = EmptyValidationCache
    /\ directCall = NoDirectCall
    /\ directResult = NoDirectCycle
    /\ reported = NoReport

DirectIdle == ServicesIdle /\ config = DefaultConfig

NoRuleCall == [op |-> "none", source |-> <<>>, target |-> <<>>]

RuleIdle == ruleCall = NoRuleCall /\ ruleResult = NoViolation

NoLruCall == [op |-> "none", key |-> <<>>, before |-> <<>>, usesBefore |-> <<>>,
              hit |-> FALSE, refreshed |-> FALSE]

\* No LRUCache is being looked at
LruIdle ==
    /\ lruCache = <<>>
    /\ lruLimit = ImportsCacheLimit
    /\ lruUses = <<>>
    /\ lruCall = NoLruCall

\* No editor was active yet: no timer is set and the views show their defaults
NoTimerCall == [op |-> "none", editor |-> <<>>, last |-> <<>>, reset |-> FALSE, count |-> 0]

TimerIdle ==
    /\ validationTimeout = 0
    /\ timers = {}
    /\ shown = <<>>
    /\ timerCall = NoTimerCall

NoParseCall == [op |-> "none", text |-> <<>>, languageId |-> "none"]

\* No text was parsed
ParserIdle == parseCall = NoParseCall /\ parsedImports = <<>>

NoMetricsCall == [op |-> "none", filePaths |-> <<>>]

\* The MetricsCalculator as constructed
MetricsIdle == metricsCall = NoMetricsCall /\ couplingData = [p \in {} |-> <<>>]

UtilIdle == LruIdle /\ TimerIdle /\ ParserIdle /\ MetricsIdle

----------------------------------------------------------------------------
(* SpecDirect: checkCycle on every disk of at most MaxDiskFiles files *)

InitDirect ==
    /\ disk \in Disks
    /\ importsCache = <<>>
    /\ config = DefaultConfig
    /\ validationCache = EmptyValidationCache
    /\ directCall = NoDirectCall
    /\ directResult = NoDirectCycle
    /\ reported = NoReport
    /\ uncaught = FALSE
    /\ docVersion = FirstVersions(disk)
    /\ CycleIdle
    /\ RuleIdle
    /\ UtilIdle

NextDirect == \E s \in SourceArgs : \E t \in TargetArgs : CheckCycle(s, t)

SpecDirect == InitDirect /\ [][NextDirect]_vars

----------------------------------------------------------------------------
(* SpecValidate: validateFile on the documents of the same disks *)

NextValidate ==
    \/ \E doc \in DOMAIN disk : ValidateFile(doc, 1)
    \/ ToggleCheckCycles

SpecValidate == InitDirect /\ [][NextValidate]_vars

----------------------------------------------------------------------------
(* SmartAdvisor *)

\* CONCEPTS, in the order Object.entries lists them
ConceptNames == <<"Presentation", "Business", "Data", "Utility">>

PresentationKeywords ==
    <<<<"v", "i", "e", "w">>,
      <<"p", "a", "g", "e">>,
      <<"s", "c", "r", "e", "e", "n">>,
      <<"u", "i">>,
      <<"c", "o", "m", "p", "o", "n", "e", "n", "t">>,
      <<"w", "i", "d", "g", "e", "t">>,
      <<"f", "r", "o", "n", "t", "e", "n", "d">>,
      <<"r", "e", "n", "d", "e", "r">>,
      <<"t", "e", "m", "p", "l", "a", "t", "e">>>>

BusinessKeywords ==
    <<<<"c", "o", "n", "t", "r", "o", "l", "l", "e", "r">>,
      <<"s", "e", "r", "v", "i", "c", "e">>,
      <<"m", "a", "n", "a", "g", "e", "r">>,
      <<"l", "o", "g", "i", "c">>,
      <<"h", "a", "n", "d", "l", "e", "r">>,
      <<"p", "r", "o", "c", "e", "s", "s", "o", "r">>,
      <<"u", "s", "e", "c", "a", "s", "e">>,
      <<"i", "n", "t", "e", "r", "a", "c", "t", "o", "r">>>>

DataKeywords ==
    <<<<"m", "o", "d", "e", "l">>,
      <<"e", "n", "t", "i", "t", "y">>,
      <<"s", "c", "h", "e", "m", "a">>,
      <<"r", "e", "p", "o">>,
      <<"r", "e", "p", "o", "s", "i", "t", "o", "r", "y">>,
      <<"d", "a", "t", "a", "b", "a", "s", "e">>,
      <<"s", "t", "o", "r", "e">>,
      <<"d", "a", "o">>,
      <<"d", "t", "o">>,
      <<"o", "r", "m">>>>

UtilityKeywords ==
    <<<<"u", "t", "i", "l">>,
      <<"u", "t", "i", "l", "s">>,
      <<"h", "e", "l", "p", "e", "r">>,
      <<"h", "e", "l", "p", "e", "r", "s">>,
      <<"c", "o", "m", "m", "o", "n">>,
      <<"l", "i", "b">>,
      <<"s", "h", "a", "r", "e", "d">>,
      <<"c", "o", "n", "f", "i", "g">>,
      <<"c", "o", "n", "s", "t", "a", "n", "t">>>>

ConceptKeywords(concept) ==
    IF concept = "Presentation" THEN PresentationKeywords
    ELSE IF concept = "Business" THEN BusinessKeywords
    ELSE IF concept = "Data" THEN DataKeywords
    ELSE IF concept = "Utility" THEN UtilityKeywords
    ELSE <<>>

\* ALLOWED_FLOW[source]: the concepts a file of the concept may import
AllowedFlow(concept) ==
    IF concept = "Presentation" THEN {"Business", "Presentation", "Utility"}
    ELSE IF concept = "Business" THEN {"Data", "Business", "Utility"}
    ELSE IF concept = "Data" THEN {"Data", "Utility"}
    ELSE IF concept = "Utility" THEN {"Utility"}
    ELSE {}

\* String.prototype.includes
Includes(text, word) ==
    \E i \in 0..(Len(text) - Len(word)) : SubSeq(text, i + 1, i + Len(word)) = word

RECURSIVE SplitAllFrom(_, _, _, _)
SplitAllFrom(p, i, cur, acc) ==
    IF i > Len(p) THEN Append(acc, cur)
    ELSE IF p[i] = "/" THEN SplitAllFrom(p, i + 1, <<>>, Append(acc, cur))
    ELSE SplitAllFrom(p, i + 1, Append(cur, p[i]), acc)

\* normalizedPath.split('/'): empty segments are kept
SplitSlash(p) == SplitAllFrom(p, 1, <<>>, <<>>)

\* segments.slice(-3)
LastThree(segments) ==
    IF Len(segments) <= 3 THEN segments
    ELSE SubSeq(segments, Len(segments) - 2, Len(segments))

\* keywords.some(keyword => text.includes(keyword))
SomeKeywordIn(keywords, text) ==
    \E k \in 1..Len(keywords) : Includes(text, keywords[k])

\* keywords.some(keyword => significantSegments.some(segment => segment.includes(keyword)))
ConceptMatches(concept, significantSegments) ==
    \E j \in 1..Len(significantSegments) :
        SomeKeywordIn(ConceptKeywords(concept), significantSegments[j])

\* classify(filePath): the first concept whose keywords match
classify(filePath) ==
    LET significantSegments == LastThree(SplitSlash(NormalizePath(filePath)))
        hits == {c \in 1..Len(ConceptNames) :
                    ConceptMatches(ConceptNames[c], significantSegments)}
    IN  IF hits = {} THEN "Unknown"
        ELSE ConceptNames[CHOOSE c \in hits : \A o \in hits : c <= o]

\* severeViolations
SevereViolations ==
    {<<"Data", "Presentation">>, <<"Utility", "Presentation">>, <<"Utility", "Business">>}

\* _calculateConfidence(source, target, sourceConcept, targetConcept)
CalculateConfidence(source, target, sourceConcept, targetConcept) ==
    IF <<sourceConcept, targetConcept>> \in SevereViolations THEN 95
    ELSE LET sourceBasename == NormalizePath(Basename(source))
             targetBasename == NormalizePath(Basename(target))
             confidence ==
                 70 + (IF SomeKeywordIn(ConceptKeywords(sourceConcept), sourceBasename)
                       THEN 5 ELSE 0)
                    + (IF SomeKeywordIn(ConceptKeywords(targetConcept), targetBasename)
                       THEN 5 ELSE 0)
         IN  IF confidence < 100 THEN confidence ELSE 100

\* analyze(sourcePath, importPath)
analyze(sourcePath, importPath) ==
    LET sourceConcept == classify(sourcePath)
        targetConcept == classify(importPath)
    IN  IF sourceConcept = "Unknown" \/ targetConcept = "Unknown" THEN NoAdvice
        ELSE IF targetConcept \notin AllowedFlow(sourceConcept)
        THEN [flagged |-> TRUE,
              score |-> CalculateConfidence(sourcePath, importPath,
                                            sourceConcept, targetConcept),
              message |-> <<"aiSuspicious", sourceConcept, targetConcept>>]
        ELSE NoAdvice

----------------------------------------------------------------------------
(* SpecAdvisor: analyze on one import between two of the paths below *)

AdvisorPaths ==
    {<<"/", "s", "r", "c", "/", "p", "a", "g", "e", "s", "/", "U", "s", "e", "r", "P", "a", "g", "e", ".", "j", "s">>,
     <<"/", "s", "r", "c", "/", "r", "e", "p", "o", "s", "i", "t", "o", "r", "y", "/", "U", "s", "e", "r", "R", "e", "p", "o", ".", "j", "s">>,
     <<"/", "s", "r", "c", "/", "s", "e", "r", "v", "i", "c", "e", "s", "/", "a", "u", "t", "h", ".", "j", "s">>,
     <<"/", "s", "r", "c", "/", "u", "t", "i", "l", "s", "/", "f", "m", "t", ".", "j", "s">>,
     <<"/", "s", "r", "c", "/", "c", "o", "r", "e", "/", "x", ".", "j", "s">>,
     <<"/", "p", "a", "g", "e", "s", "/", "a", "/", "b", "/", "c", ".", "j", "s">>,
     <<"/", "s", "r", "c", "/", "b", "u", "i", "l", "d", "/", "x", ".", "j", "s">>,
     <<"\\", "s", "r", "c", "\\", "p", "a", "g", "e", "s", "\\", "x", ".", "j", "s">>,
     <<"/", "s", "r", "c", "/", "r", "e", "p", "o", "s", "i", "t", "o", "r", "y", "/", "p", "a", "g", "e", "r", "e", "p", "o", ".", "j", "s">>}

\* advisor.analyze(sourcePath, importPath) on the pending import
Analyze ==
    /\ aiResult' = analyze(aiCall.source, aiCall.target)
    /\ aiCall' = [aiCall EXCEPT !.op = "analyze"]
    /\ UNCHANGED <<vectors, importCounts, statsModel, isLearning, activeLearns, learnPending>>
    /\ UNCHANGED <<cycleVars, directVars, ruleVars, buildVars, utilVars>>

InitAdvisor ==
    /\ \E source \in AdvisorPaths : \E target \in AdvisorPaths :
           aiCall = [op |-> "pending", source |-> source, target |-> target]
    /\ aiResult = NoAdvice
    /\ vectors = {}
    /\ importCounts = <<>>
    /\ statsModel = NoStatsModel
    /\ isLearning = FALSE
    /\ activeLearns = 0
    /\ learnPending = <<>>
    /\ BuildIdle
    /\ dependencyGraph = EmptyGraph
    /\ graphKeys = <<>>
    /\ deepCycleMaxDepth = DepthSettingDefault
    /\ lastCall = NoCall
    /\ deepResult = NoCycle
    /\ allCycles = <<>>
    /\ DirectIdle
    /\ RuleIdle
    /\ UtilIdle

NextAdvisor == Analyze

SpecAdvisor == InitAdvisor /\ [][NextAdvisor]_vars

----------------------------------------------------------------------------
(* SpecConfigured: validateFile under settings that hold rules and layers, *)
(* some of them with a pattern minimatch rejects                           *)

\* A rule without source
BrokenRule ==
    [source |-> InvalidPattern, hasDisallow |-> TRUE, disallow |-> <<<<"**">>>>,
     message |-> "broken"]

\* A rule with an entry of disallow that is no string
BrokenDisallow ==
    [source |-> <<"**">>, hasDisallow |-> TRUE, disallow |-> <<InvalidPattern>>,
     message |-> ""]

\* The file a.js may not import the file b
SoundRule ==
    [source |-> <<"a", ".", "j", "s">>, hasDisallow |-> TRUE, disallow |-> <<<<"b">>>>,
     message |-> "a.js must not import b"]

\* A layer without pattern
BrokenLayer == [name |-> "Broken", pattern |-> InvalidPattern]

SoundLayer == [name |-> "All", pattern |-> <<"**">>]

ConfiguredRules ==
    {<<>>, <<SoundRule>>, <<BrokenRule>>, <<SoundRule, BrokenRule>>, <<BrokenDisallow>>}

ConfiguredLayers == {<<>>, <<BrokenLayer>>, <<SoundLayer, BrokenLayer>>}

InitConfigured ==
    /\ disk \in Disks
    /\ importsCache = <<>>
    /\ \E rules \in ConfiguredRules : \E layers \in ConfiguredLayers :
           config = [DefaultConfig EXCEPT !.rules = rules, !.layers = layers]
    /\ validationCache = EmptyValidationCache
    /\ directCall = NoDirectCall
    /\ directResult = NoDirectCycle
    /\ reported = NoReport
    /\ uncaught = FALSE
    /\ docVersion = FirstVersions(disk)
    /\ CycleIdle
    /\ RuleIdle
    /\ UtilIdle

NextConfigured == \E doc \in DOMAIN disk : ValidateFile(doc, docVersion[doc])

SpecConfigured == InitConfigured /\ [][NextConfigured]_vars

----------------------------------------------------------------------------
(* SpecRules: validate on one import between workspace-relative paths,     *)
(* under every list of at most MaxRules rules and MaxLayers layers drawn   *)
(* from the ones below                                                     *)

\* The glob '**/dir/**'
InDirectory(dir) == <<"**", "/", dir, "/", "**">>

RulePaths ==
    {<<"domain", "/", "f">>, <<"database", "/", "f">>, <<"pages", "/", "f">>,
     <<"src", "/", "pages", "/", "f">>, <<"pages", "\\", "f">>}

\* A file outside every directory, as a package import is passed
RuleTargets == RulePaths \cup {<<"f">>}

RuleChoices ==
    {[source |-> InDirectory("pages"), hasDisallow |-> TRUE,
      disallow |-> <<InDirectory("database")>>,
      message |-> "pages must not import database"],
     [source |-> InDirectory("pages"), hasDisallow |-> TRUE,
      disallow |-> <<InDirectory("domain"), InDirectory("database")>>,
      message |-> ""],
     [source |-> <<"f">>, hasDisallow |-> TRUE,
      disallow |-> <<InDirectory("domain")>>,
      message |-> "no file f may import domain"],
     [source |-> InDirectory("domain"), hasDisallow |-> FALSE,
      disallow |-> <<>>,
      message |-> "nothing disallowed"]}

LayerChoices ==
    {[name |-> "Domain", pattern |-> InDirectory("domain")],
     [name |-> "Presentation", pattern |-> InDirectory("pages")],
     [name |-> "Files", pattern |-> <<"f">>],
     [name |-> "Everything", pattern |-> <<"**">>]}

Range(q) == {q[i] : i \in 1..Len(q)}

RECURSIVE ListsUpTo(_, _)
\* The lists of at most n elements of S
ListsUpTo(S, n) ==
    IF n = 0 THEN {<<>>}
    ELSE ListsUpTo(S, n - 1) \cup
         {Append(q, x) : <<q, x>> \in {y \in ListsUpTo(S, n - 1) \X S : Len(y[1]) = n - 1}}

\* Those without a repeated element
DistinctListsUpTo(S, n) ==
    {q \in ListsUpTo(S, n) : Cardinality(Range(q)) = Len(q)}

\* engine.validate(source, target, rules, layers) on the pending import
ValidateImport ==
    /\ ruleResult' = validate(ruleCall.source, ruleCall.target, config.rules, config.layers)
    /\ ruleCall' = [ruleCall EXCEPT !.op = "validate"]
    /\ UNCHANGED <<cycleVars, directVars, buildVars, aiVars, utilVars>>

InitRules ==
    /\ \E rules \in ListsUpTo(RuleChoices, MaxRules) :
       \E layers \in DistinctListsUpTo(LayerChoices, MaxLayers) :
           config = [DefaultConfig EXCEPT !.rules = rules, !.layers = layers]
    /\ \E source \in RulePaths : \E target \in RuleTargets :
           ruleCall = [op |-> "pending", source |-> source, target |-> target]
    /\ ruleResult = NoViolation
    /\ ServicesIdle
    /\ CycleIdle
    /\ UtilIdle

NextRules == ValidateImport

SpecRules == InitRules /\ [][NextRules]_vars

----------------------------------------------------------------------------
(* SpecEncapsulation: checkEncapsulation on one resolved import path, over *)
(* every set of the files below                                            *)

IndexName == <<"i", "n", "d", "e", "x">>

\* The directory /u
DirU == <<"/", "u">>

EncapsulationFiles ==
    {PathJoin(DirU, IndexName \o <<".", "j", "s">>),
     PathJoin(DirU, <<"x", ".", "j", "s">>),
     PathJoin(DirU, IndexName \o <<"e", "r", ".", "j", "s">>),
     PathJoin(<<"/">>, IndexName \o <<".", "t", "s">>),
     PathJoin(<<"/">>, <<"x", ".", "j", "s">>)}

\* path.resolve(currentDir, imp.path) for imports written with and without
\* extension, of a file, of an index file and of a directory
EncapsulationTargets ==
    {PathJoin(DirU, <<"x">>), PathJoin(DirU, <<"x", ".", "j", "s">>),
     PathJoin(DirU, IndexName), PathJoin(DirU, IndexName \o <<".", "j", "s">>),
     PathJoin(DirU, IndexName \o <<"e", "r">>),
     DirU, PathJoin(<<"/">>, <<"x">>)}

\* engine.checkEncapsulation(targetAbsPath) on the pending import
CheckEncapsulation ==
    /\ ruleResult' =
           IF checkEncapsulation(disk, ruleCall.target)
           THEN [isViolation |-> TRUE, message |-> <<"Encapsulation Warning">>]
           ELSE NoViolation
    /\ ruleCall' = [ruleCall EXCEPT !.op = "checkEncapsulation"]
    /\ UNCHANGED <<cycleVars, directVars, buildVars, aiVars, utilVars>>

InitEncapsulation ==
    /\ \E S \in SUBSET EncapsulationFiles :
           disk = [p \in S |-> [imports |-> <<>>, mtime |-> 1]]
    /\ \E target \in EncapsulationTargets :
           ruleCall = [op |-> "pending", source |-> <<>>, target |-> target]
    /\ ruleResult = NoViolation
    /\ importsCache = <<>>
    /\ config = DefaultConfig
    /\ validationCache = EmptyValidationCache
    /\ directCall = NoDirectCall
    /\ directResult = NoDirectCycle
    /\ reported = NoReport
    /\ uncaught = FALSE
    /\ docVersion = FirstVersions(disk)
    /\ CycleIdle
    /\ UtilIdle

NextEncapsulation == CheckEncapsulation

SpecEncapsulation == InitEncapsulation /\ [][NextEncapsulation]_vars

----------------------------------------------------------------------------
(* SpecBuild: buildGraph on a file system that changes.  buildGraph runs   *)
(* without yielding; the model takes it one file at a time, so that the    *)
(* file system can change, and another call can arrive, at each of its     *)
(* reads.                                                                  *)

\* The latest modification times of the files on the disk add up to at most
\* MaxMtime
MaxMtime == 3

RECURSIVE SumMtime(_, _)
SumMtime(d, files) ==
    IF files = {} THEN 0
    ELSE LET f == CHOOSE x \in files : TRUE
         IN  d[f].mtime + SumMtime(d, files \ {f})

\* CONFIG.MAX_FILES_PER_CHECK
MAX_FILES_PER_CHECK == 50

BuildFiles == {PathA, PathB}

BuildTexts == {<<>>, <<ImportB>>}

\* A file as buildGraph finds it: readable and within CONFIG.MAX_FILE_SIZE,
\* one whose read throws, or one of more than CONFIG.MAX_FILE_SIZE bytes
FileStates == {"ok", "unreadable", "large"}

BuildLists == {<<PathA>>, <<PathA, PathB>>}

\* filePaths.slice(0, CONFIG.MAX_FILES_PER_CHECK)
Slice(files, limit) == SubSeq(files, 1, IF Len(files) < limit THEN Len(files) ELSE limit)

\* Mutant: the flag is not looked at
NeverDrop(flag) == FALSE

\* if (this.isBuilding) return;   if (this.isLearning) return;
ShouldDrop(flag) == flag

\* What buildGraph leaves alone
BuildFrame ==
    UNCHANGED <<deepCycleMaxDepth, lastCall, deepResult, allCycles, importsCache, config,
                validationCache, directCall, directResult, reported, uncaught,
                docVersion, ruleVars, utilVars>>

\* buildGraph(filePaths) up to its loop; isArray is false for an argument
\* without slice, on which the first statement of the try block throws
BuildGraph(filePaths, isArray) ==
    /\ IF ShouldDrop(isBuilding)
       THEN /\ buildCall' = [buildCall EXCEPT !.dropped = TRUE]
            /\ UNCHANGED <<isBuilding, activeBuilds, buildPending, parsedFiles>>
       ELSE /\ isBuilding' = TRUE
            /\ activeBuilds' = activeBuilds + 1
            /\ buildPending' = IF isArray THEN Slice(filePaths, MAX_FILES_PER_CHECK) ELSE <<>>
            /\ parsedFiles' = {}
            /\ buildCall' =
                   [op |-> IF isArray THEN "running" ELSE "throwing",
                    files |-> filePaths,
                    before |-> BuilderState(dependencyGraph, graphKeys, fileTimestamps, {}),
                    repeated |-> isArray /\ filePaths \in cleanPasses,
                    disturbed |-> FALSE,
                    dropped |-> FALSE]
    /\ UNCHANGED <<dependencyGraph, graphKeys, fileTimestamps, skippedFiles, cleanPasses,
                   resolvedPath, disk>>
    /\ UNCHANGED aiVars
    /\ BuildFrame

\* One round of the loop of buildGraph
BuildStep ==
    /\ buildCall.op = "running"
    /\ buildPending # <<>>
    /\ LET filePath == Head(buildPending)
           st == ProcessFileForGraph(
                     disk,
                     BuilderState(dependencyGraph, graphKeys, fileTimestamps, parsedFiles),
                     filePath)
       IN  /\ dependencyGraph' = st.graph
           /\ graphKeys' = st.keys
           /\ fileTimestamps' = st.timestamps
           /\ parsedFiles' = st.parsed
           /\ skippedFiles' =
                  IF Unavailable(disk, filePath)
                  THEN skippedFiles \cup {filePath}
                  ELSE skippedFiles \ {filePath}
    /\ buildPending' = Tail(buildPending)
    /\ buildCall' = [buildCall EXCEPT !.dropped = FALSE]
    /\ UNCHANGED <<isBuilding, activeBuilds, cleanPasses, resolvedPath, disk>>
    /\ UNCHANGED aiVars
    /\ BuildFrame

\* The finally block of buildGraph, after the loop or after the exception
BuildEnd ==
    /\ \/ buildCall.op = "running" /\ buildPending = <<>>
       \/ buildCall.op = "throwing"
    /\ isBuilding' = FALSE
    /\ activeBuilds' = activeBuilds - 1
    /\ buildCall' =
           [buildCall EXCEPT !.op = IF buildCall.op = "running" THEN "done" ELSE "threw",
                             !.dropped = FALSE]
    /\ cleanPasses' =
           IF buildCall.op = "running" /\ ~buildCall.disturbed
           THEN cleanPasses \cup {buildCall.files}
           ELSE cleanPasses
    /\ UNCHANGED <<dependencyGraph, graphKeys, fileTimestamps, buildPending, parsedFiles,
                   skippedFiles, resolvedPath, disk>>
    /\ UNCHANGED aiVars
    /\ BuildFrame

\* What a change of the file system leaves alone
DiskChangeFrame ==
    /\ buildCall' = [buildCall EXCEPT !.disturbed = TRUE, !.dropped = FALSE]
    /\ cleanPasses' = {}
    /\ UNCHANGED <<dependencyGraph, graphKeys, fileTimestamps, isBuilding, activeBuilds,
                   buildPending, parsedFiles, skippedFiles, resolvedPath>>
    /\ UNCHANGED aiVars
    /\ BuildFrame

\* Some program writes the file: its modification time is later than every
\* time buildGraph has stored for it
WriteFile(filePath, text, state) ==
    /\ LET mtime ==
               IF filePath \in DOMAIN disk THEN disk[filePath].mtime + 1
               ELSE IF filePath \in DOMAIN fileTimestamps THEN fileTimestamps[filePath] + 1
               ELSE 1
       IN  /\ mtime + SumMtime(disk, DOMAIN disk \ {filePath}) <= MaxMtime
           /\ disk' = [p \in DOMAIN disk \cup {filePath} |->
                          IF p = filePath
                          THEN [imports |-> text, mtime |-> mtime, state |-> state]
                          ELSE disk[p]]
    /\ DiskChangeFrame

\* Some program deletes the file
DeleteFile(filePath) ==
    /\ filePath \in DOMAIN disk
    /\ disk' = [p \in DOMAIN disk \ {filePath} |-> disk[p]]
    /\ DiskChangeFrame

InitBuild == CycleIdle /\ DirectIdle /\ RuleIdle /\ UtilIdle

NextBuild ==
    \/ \E files \in BuildLists : BuildGraph(files, TRUE)
    \/ BuildGraph(<<>>, FALSE)
    \/ BuildStep
    \/ BuildEnd
    \/ \E f \in BuildFiles : \E text \in BuildTexts : \E state \in FileStates :
           WriteFile(f, text, state)
    \/ \E f \in BuildFiles : DeleteFile(f)

SpecBuild == InitBuild /\ [][NextBuild]_vars

----------------------------------------------------------------------------
(* SpecLru: one LRUCache under get, set and has *)

\* The largest limit a cache is made with
MaxLimit == 2

\* The number of keys and of values
MaxKeys == 3
MaxVals == 2

LruKey(i) == <<"k", i>>

LruKeys == {LruKey(i) : i \in 1..MaxKeys}

\* The keys of the entries of a cache
KeysOf(c) == {c[i].key : i \in 1..Len(c)}

\* The key counts as used now
UseKey(uses, key) == Append(SelectSeq(uses, LAMBDA k : k # key), key)

LruFrame ==
    UNCHANGED <<cycleVars, directVars, ruleVars, buildVars, aiVars, timerVars, parserVars,
                metricsVars>>

\* get(key)
CacheGet(key) ==
    /\ lruCache' = LRUAfterGet(lruCache, key)
    /\ lruUses' = IF LRUHas(lruCache, key) THEN UseKey(lruUses, key) ELSE lruUses
    /\ lruCall' = [op |-> "get", key |-> key, before |-> lruCache, usesBefore |-> lruUses,
                   hit |-> LRUHas(lruCache, key),
                   refreshed |-> \/ lruCall.refreshed
                                 \/ /\ LRUHas(lruCache, key)
                                    /\ lruCache[Len(lruCache)].key # key]
    /\ UNCHANGED lruLimit
    /\ LruFrame

\* set(key, val)
CacheSet(key, val) ==
    /\ lruCache' = LRUSet(lruCache, lruLimit, key, val)
    /\ lruUses' = UseKey(lruUses, key)
    /\ lruCall' = [op |-> "set", key |-> key, before |-> lruCache, usesBefore |-> lruUses,
                   hit |-> LRUHas(lruCache, key), refreshed |-> lruCall.refreshed]
    /\ UNCHANGED lruLimit
    /\ LruFrame

\* has(key)
CacheHas(key) ==
    /\ lruCall' = [op |-> "has", key |-> key, before |-> lruCache, usesBefore |-> lruUses,
                   hit |-> LRUHas(lruCache, key), refreshed |-> lruCall.refreshed]
    /\ UNCHANGED <<lruCache, lruLimit, lruUses>>
    /\ LruFrame

InitLru ==
    /\ lruCache = <<>>
    /\ lruLimit \in 1..MaxLimit
    /\ lruUses = <<>>
    /\ lruCall = NoLruCall
    /\ TimerIdle /\ ParserIdle /\ MetricsIdle
    /\ CycleIdle /\ DirectIdle /\ RuleIdle

NextLru ==
    \E key \in LruKeys :
        \/ CacheGet(key)
        \/ \E val \in 1..MaxVals : CacheSet(key, val)
        \/ CacheHas(key)

SpecLru == InitLru /\ [][NextLru]_vars

----------------------------------------------------------------------------
(* ImportParser.  A text is a sequence of statements, one per line; a       *)
(* statement is an import construct of some kind with its path, or another  *)
(* line.  A pattern of IMPORT_PATTERNS matches the statements of its kind,  *)
(* from their first character to the closing quote or parenthesis.          *)

\* IMPORT_PATTERNS: the patterns of a language, in their order, each named
\* by the kind of statement it matches
ImportPatterns(languageId) ==
    IF languageId \in {"javascript", "typescript"}
    THEN <<"importFrom", "importBare", "exportFrom", "require">>
    ELSE IF languageId \in {"javascriptreact", "typescriptreact"}
    THEN <<"importFrom", "importBare", "require">>
    ELSE <<>>

\* match[0].length for a statement: import x from 'path', import 'path',
\* export * from 'path', require('path'), and a line x
MatchLength(st) ==
    CASE st.kind = "importFrom" -> 15 + Len(st.path) + 1
      [] st.kind = "importBare" -> 8 + Len(st.path) + 1
      [] st.kind = "exportFrom" -> 15 + Len(st.path) + 1
      [] st.kind = "require"    -> 9 + Len(st.path) + 2
      [] OTHER                  -> 1

RECURSIVE OffsetOf(_, _)
\* match.index of statement i: the length of the lines before it
OffsetOf(text, i) ==
    IF i = 1 THEN 0 ELSE OffsetOf(text, i - 1) + MatchLength(text[i - 1]) + 1

RECURSIVE ExecLoop(_, _, _, _)
\* while ((match = regex.exec(text)) !== null): the matches of one pattern
\* from statement i on, left to right, each pushed unless its key is in seen
ExecLoop(text, kind, i, acc) ==
    IF i > Len(text) THEN acc
    ELSE IF text[i].kind # kind THEN ExecLoop(text, kind, i + 1, acc)
    ELSE LET importPath == text[i].path
             matchKey == <<OffsetOf(text, i), importPath>>
         IN  IF importPath # <<>> /\ matchKey \notin acc.seen
             THEN ExecLoop(text, kind, i + 1,
                           [seen |-> acc.seen \cup {matchKey},
                            imports |-> Append(acc.imports,
                                               [path |-> importPath,
                                                index |-> OffsetOf(text, i),
                                                length |-> MatchLength(text[i])])])
             ELSE ExecLoop(text, kind, i + 1, acc)

RECURSIVE ExtractFrom(_, _, _, _)
\* for (const regex of regexes): pattern r and those after it
ExtractFrom(text, regexes, r, acc) ==
    IF r > Len(regexes) THEN acc.imports
    ELSE ExtractFrom(text, regexes, r + 1, ExecLoop(text, regexes[r], 1, acc))

\* _extractImports(text, regexes)
extractImports(text, regexes) ==
    ExtractFrom(text, regexes, 1, [seen |-> {}, imports |-> <<>>])

\* parse(text, languageId)
parse(text, languageId) ==
    LET regexes == ImportPatterns(languageId)
    IN  IF Len(regexes) = 0 THEN <<>> ELSE extractImports(text, regexes)

----------------------------------------------------------------------------
(* SpecParse: parse on the texts of up to MaxStatements statements *)

MaxStatements == 3

StatementKinds == {"importFrom", "importBare", "exportFrom", "require", "other"}

\* The statements: every kind with the paths './a' and './b'
Statements == [kind : StatementKinds, path : {ImportA, ImportB}]

Texts == UNION {[1..n -> Statements] : n \in 0..MaxStatements}

\* One language of each list of patterns, and one without patterns
LanguageIds == {"javascript", "javascriptreact", "plaintext"}

\* parse(text, languageId) on the pending text
Parse ==
    /\ parseCall.op = "pending"
    /\ parsedImports' = parse(parseCall.text, parseCall.languageId)
    /\ parseCall' = [parseCall EXCEPT !.op = "parse"]
    /\ UNCHANGED <<cycleVars, directVars, ruleVars, buildVars, aiVars, lruVars, timerVars,
                   metricsVars>>

InitParse ==
    /\ \E text \in Texts : \E languageId \in LanguageIds :
           parseCall = [op |-> "pending", text |-> text, languageId |-> languageId]
    /\ parsedImports = <<>>
    /\ LruIdle /\ TimerIdle /\ MetricsIdle
    /\ CycleIdle /\ DirectIdle /\ RuleIdle

NextParse == Parse

SpecParse == InitParse /\ [][NextParse]_vars

----------------------------------------------------------------------------
(* SpecResolve: _resolveImportPath on disks of files and directories *)

\* The files a disk can hold: u with and without extension beside the
\* directory u, and index files inside it
ResolveFiles ==
    {<<"/", "u", ".", "j", "s">>, <<"/", "u", ".", "t", "s">>,
     PathJoin(DirU, IndexName \o <<".", "j", "s">>),
     PathJoin(DirU, IndexName \o <<".", "t", "s">>),
     PathJoin(DirU, <<"x", ".", "j", "s">>)}

\* The readable files written once
ResolveDisks ==
    UNION {[S -> {[imports |-> <<>>, mtime |-> 1, state |-> "ok"]}] :
               S \in SUBSET ResolveFiles}

\* Imports of /u with and without extension, of a file of the directory,
\* and of nothing that is there
ResolveImports ==
    {<<".", "/", "u">>, <<".", "/", "u", ".", "j", "s">>,
     <<".", "/", "u", "/", "x">>, <<".", "/", "v">>}

\* _resolveImportPath(fromDir, importPath) on the pending import
ResolveImport ==
    /\ buildCall.op = "pending"
    /\ resolvedPath' = ResolveImportPath(disk, buildCall.files[1], buildCall.files[2])
    /\ buildCall' = [buildCall EXCEPT !.op = "resolveImportPath"]
    /\ UNCHANGED <<dependencyGraph, graphKeys, fileTimestamps, isBuilding, activeBuilds,
                   buildPending, parsedFiles, skippedFiles, cleanPasses, disk>>
    /\ UNCHANGED aiVars
    /\ BuildFrame

InitResolve ==
    /\ disk \in ResolveDisks
    /\ \E importPath \in ResolveImports :
           buildCall = [NoBuildCall EXCEPT !.op = "pending", !.files = <<<<"/">>, importPath>>]
    /\ fileTimestamps = [p \in {} |-> 0]
    /\ isBuilding = FALSE
    /\ activeBuilds = 0
    /\ buildPending = <<>>
    /\ parsedFiles = {}
    /\ skippedFiles = {}
    /\ cleanPasses = {}
    /\ resolvedPath = <<>>
    /\ AiIdle
    /\ dependencyGraph = EmptyGraph
    /\ graphKeys = <<>>
    /\ deepCycleMaxDepth = DepthSettingDefault
    /\ lastCall = NoCall
    /\ deepResult = NoCycle
    /\ allCycles = <<>>
    /\ importsCache = <<>>
    /\ config = DefaultConfig
    /\ validationCache = EmptyValidationCache
    /\ directCall = NoDirectCall
    /\ directResult = NoDirectCycle
    /\ reported = NoReport
    /\ uncaught = FALSE
    /\ docVersion = FirstVersions(disk)
    /\ RuleIdle
    /\ UtilIdle

NextResolve == ResolveImport

SpecResolve == InitResolve /\ [][NextResolve]_vars

----------------------------------------------------------------------------
(* AIKernel.learn.  A term vector is kept as the file it was computed for: *)
(* no claim settled here reads its terms.                                  *)

\* CONFIG.MAX_FILES
MAX_FILES == 500

\* CONFIG.ANOMALY_THRESHOLD
ANOMALY_THRESHOLD == 3

\* _countImports(content): one import or require per import of the text
CountImports(imports) == Len(imports)

\* fs.existsSync(file) holds and fs.readFileSync(file) returns
Readable(d, file) == ExistsSync(d, file) /\ d[file].state # "unreadable"

RECURSIVE SumOf(_, _)
SumOf(arr, i) == IF i > Len(arr) THEN 0 ELSE arr[i] + SumOf(arr, i + 1)

RECURSIVE SumOfSquares(_, _)
SumOfSquares(arr, i) ==
    IF i > Len(arr) THEN 0 ELSE arr[i] * arr[i] + SumOfSquares(arr, i + 1)

\* _computeStats(arr), as the integers that determine mean and stdDev:
\* mean = sum / n and stdDev = sqrt(n * sumSquares - sum * sum) / n
ComputeStats(arr) ==
    [learned |-> TRUE, n |-> Len(arr), sum |-> SumOf(arr, 1),
     sumSquares |-> SumOfSquares(arr, 1)]

\* n * n times the average square difference of _computeStats
ScaledVariance(model) == model.n * model.sumSquares - model.sum * model.sum

\* The stdDev of the model is the 1 of _computeStats: arr.length === 0, or
\* stdDev || 1 with a stdDev of zero
StdDevIsDefault(model) == model.n = 0 \/ ScaledVariance(model) = 0

\* What learn leaves alone
LearnFrame ==
    UNCHANGED <<cycleVars, disk, importsCache, config, validationCache, directCall,
                directResult, reported, uncaught, docVersion, ruleVars, buildVars,
                utilVars>>

\* learn(filePaths) up to its loop; isArray as for buildGraph
Learn(filePaths, isArray) ==
    /\ IF ShouldDrop(isLearning)
       THEN /\ aiCall' = [aiCall EXCEPT !.dropped = TRUE]
            /\ UNCHANGED <<vectors, importCounts, isLearning, activeLearns, learnPending>>
       ELSE /\ isLearning' = TRUE
            /\ activeLearns' = activeLearns + 1
            /\ learnPending' = IF isArray THEN Slice(filePaths, MAX_FILES) ELSE <<>>
            /\ importCounts' = IF isArray THEN <<>> ELSE importCounts
            /\ vectors' = IF isArray THEN {} ELSE vectors
            /\ aiCall' = [op |-> IF isArray THEN "learning" ELSE "throwing",
                          source |-> filePaths, target |-> <<>>, dropped |-> FALSE]
    /\ UNCHANGED <<statsModel, aiResult>>
    /\ LearnFrame

\* One round of the loop of learn: _processFile(file)
LearnStep ==
    /\ aiCall.op = "learning"
    /\ learnPending # <<>>
    /\ LET file == Head(learnPending)
       IN  IF Readable(disk, file)
           THEN /\ vectors' = vectors \cup {file}
                /\ importCounts' = Append(importCounts, CountImports(disk[file].imports))
           ELSE UNCHANGED <<vectors, importCounts>>
    /\ learnPending' = Tail(learnPending)
    /\ aiCall' = [aiCall EXCEPT !.dropped = FALSE]
    /\ UNCHANGED <<statsModel, isLearning, activeLearns, aiResult>>
    /\ LearnFrame

\* The end of learn: _computeStats after the loop, and the finally block
\* after the loop or after the exception
LearnEnd ==
    /\ \/ aiCall.op = "learning" /\ learnPending = <<>>
       \/ aiCall.op = "throwing"
    /\ statsModel' =
           IF aiCall.op = "learning" THEN ComputeStats(importCounts) ELSE statsModel
    /\ isLearning' = FALSE
    /\ activeLearns' = activeLearns - 1
    /\ aiCall' = [aiCall EXCEPT !.op = IF aiCall.op = "learning" THEN "learned" ELSE "threw",
                                !.dropped = FALSE]
    /\ UNCHANGED <<vectors, importCounts, learnPending, aiResult>>
    /\ LearnFrame

\* zScore = (importCount - mean) / stdDev, as the pair of integers with
\* zScore = numerator / sqrt(denominatorSquared): with mean = sum / n, it is
\* (n * importCount - sum) / n when stdDev is the default 1 (importCount
\* itself for an empty arr, whose mean is 0) and
\* (n * importCount - sum) / sqrt(n * sumSquares - sum * sum) otherwise.
\* stdDev is never zero, so the other arm of the conditional is never taken.
ZScore(model, importCount) ==
    LET numerator == model.n * importCount - model.sum
    IN  IF model.n = 0 THEN [numerator |-> importCount, denominatorSquared |-> 1]
        ELSE IF ScaledVariance(model) = 0
        THEN [numerator |-> numerator, denominatorSquared |-> model.n * model.n]
        ELSE [numerator |-> numerator, denominatorSquared |-> ScaledVariance(model)]

\* Mutant: the square root is left out of the divisor
ZScoreAboveNoRoot(zScore, threshold) ==
    zScore.numerator > threshold * zScore.denominatorSquared

\* zScore > threshold, for a threshold that is not negative
ZScoreAbove(zScore, threshold) ==
    /\ zScore.numerator > 0
    /\ zScore.numerator * zScore.numerator
           > threshold * threshold * zScore.denominatorSquared

\* The zScore of the result when there is no model: '0.0'
ZeroScore == [numerator |-> 0, denominatorSquared |-> 1]

\* detectAnomaly(fileContent).  The score is kept as the zScore, not as the
\* text toFixed(2) makes of it; the message goes with isAnomaly.
detectAnomaly(model, imports) ==
    IF ~model.learned
    THEN [flagged |-> FALSE, score |-> ZeroScore, message |-> <<>>]
    ELSE LET zScore == ZScore(model, CountImports(imports))
             isAnomaly == ZScoreAbove(zScore, ANOMALY_THRESHOLD)
         IN  [flagged |-> isAnomaly, score |-> zScore,
              message |-> IF isAnomaly THEN <<"statistical anomaly">> ELSE <<>>]

\* A call of detectAnomaly on a content with these imports
DetectAnomaly(imports) ==
    /\ ~isLearning
    /\ aiResult' = detectAnomaly(statsModel, imports)
    /\ aiCall' = [op |-> "detectAnomaly", source |-> imports, target |-> <<>>,
                  dropped |-> FALSE]
    /\ UNCHANGED <<vectors, importCounts, statsModel, isLearning, activeLearns,
                   learnPending>>
    /\ LearnFrame

----------------------------------------------------------------------------
(* SpecLearn: learn on projects of files with given numbers of imports,    *)
(* and detectAnomaly on the model it computes                              *)

\* The files of the largest project in which one file stands out
MaxProject == 12

\* The files of the other projects, and the imports of each of their files
MaxLearnFiles == 3

MaxCount == 3

\* The project of the example: the imports of the ordinary files and of the
\* file that stands out
OutlierExample == [ordinary |-> 2, outlier |-> 50]

OrdinaryCount == OutlierExample.ordinary

OutlierCount == OutlierExample.outlier

\* A text with count imports
TextOf(count) == [i \in 1..count |-> ImportPackage]

\* The project of n readable files with these numbers of imports
ProjectDisk(counts) ==
    [p \in {File(i) : i \in 1..Len(counts)} |->
        LET i == CHOOSE j \in 1..Len(counts) : File(j) = p
        IN  [imports |-> TextOf(counts[i]), mtime |-> 1, state |-> "ok"]]

\* n files, all with OrdinaryCount imports except the file at position k
OutlierCounts(n, k) == [i \in 1..n |-> IF i = k THEN OutlierCount ELSE OrdinaryCount]

LearnDisks ==
    UNION {{ProjectDisk(OutlierCounts(n, k)) : k \in {1, n}} : n \in 1..MaxProject}
        \cup {ProjectDisk(counts) :
                  counts \in UNION {[1..n -> 0..MaxCount] : n \in 0..MaxLearnFiles}}

\* vscode.workspace.findFiles: the files of the project, in order
ProjectFiles(d) == [i \in 1..Cardinality(DOMAIN d) |-> File(i)]

InitLearn ==
    /\ disk \in LearnDisks
    /\ importsCache = <<>>
    /\ config = DefaultConfig
    /\ validationCache = EmptyValidationCache
    /\ directCall = NoDirectCall
    /\ directResult = NoDirectCycle
    /\ reported = NoReport
    /\ uncaught = FALSE
    /\ docVersion = FirstVersions(disk)
    /\ CycleIdle
    /\ RuleIdle
    /\ UtilIdle

NextLearn ==
    \/ Learn(ProjectFiles(disk), TRUE)
    \/ LearnStep
    \/ LearnEnd
    \/ \E count \in {OrdinaryCount, OutlierCount} : DetectAnomaly(TextOf(count))

SpecLearn == InitLearn /\ [][NextLearn]_vars

----------------------------------------------------------------------------
(* SpecSingleFlight: buildGraph and learn, as extension.js calls them on   *)
(* the files of the workspace, taken one file at a time so that a call can *)
(* arrive while the other runs                                             *)

\* /a.js imports ./b; the read of /b.js throws
WorkspaceDisk ==
    [p \in BuildFiles |->
        IF p = PathA THEN [imports |-> <<ImportB>>, mtime |-> 1, state |-> "ok"]
        ELSE [imports |-> <<>>, mtime |-> 1, state |-> "unreadable"]]

InitSingleFlight ==
    /\ disk = WorkspaceDisk
    /\ importsCache = <<>>
    /\ config = DefaultConfig
    /\ validationCache = EmptyValidationCache
    /\ directCall = NoDirectCall
    /\ directResult = NoDirectCycle
    /\ reported = NoReport
    /\ uncaught = FALSE
    /\ docVersion = FirstVersions(disk)
    /\ CycleIdle
    /\ RuleIdle
    /\ UtilIdle

NextSingleFlight ==
    \/ \E files \in BuildLists : BuildGraph(files, TRUE)
    \/ BuildGraph(<<>>, FALSE)
    \/ BuildStep
    \/ BuildEnd
    \/ \E files \in BuildLists : Learn(files, TRUE)
    \/ Learn(<<>>, FALSE)
    \/ LearnStep
    \/ LearnEnd

SpecSingleFlight == InitSingleFlight /\ [][NextSingleFlight]_vars

----------------------------------------------------------------------------
(* SpecVersions: validateFile on documents that are edited and saved *)

\* The versions a document goes through
MaxVersion == 2

\* The texts of the two documents: no import, or an import of either file
VersionTexts == {<<>>, <<ImportAExt>>, <<ImportB>>}

\* /a.js and /b, the file that './b' resolves to without an extension
VersionDisks == [{PathA, PathBNoExt} -> [imports : VersionTexts, mtime : {1}]]

InitVersions ==
    /\ disk \in VersionDisks
    /\ importsCache = <<>>
    /\ config = DefaultConfig
    /\ validationCache = EmptyValidationCache
    /\ directCall = NoDirectCall
    /\ directResult = NoDirectCycle
    /\ reported = NoReport
    /\ uncaught = FALSE
    /\ docVersion = FirstVersions(disk)
    /\ CycleIdle
    /\ RuleIdle
    /\ UtilIdle

\* onDidChangeTextDocument and the save that follows: the document has a new
\* text and the next version, the file a later modification time
EditDocument(docPath, text) ==
    /\ docVersion[docPath] < MaxVersion
    /\ text # disk[docPath].imports
    /\ docVersion' = [docVersion EXCEPT ![docPath] = @ + 1]
    /\ disk' = [disk EXCEPT ![docPath] = [imports |-> text, mtime |-> @.mtime + 1]]
    /\ directCall' = [op |-> "edit", source |-> docPath, target |-> <<>>]
    /\ UNCHANGED <<importsCache, config, validationCache, directResult, reported, uncaught>>
    /\ DirectFrame

NextVersions ==
    \/ \E doc \in DOMAIN disk : ValidateFile(doc, docVersion[doc])
    \/ \E doc \in DOMAIN disk : \E text \in VersionTexts : EditDocument(doc, text)
    \/ ToggleCheckCycles

SpecVersions == InitVersions /\ [][NextVersions]_vars

----------------------------------------------------------------------------
(* SpecTimer: triggerValidation and the timer it sets, on the same documents *)

\* The number of triggerValidation calls
MaxTriggers == 3

\* No active editor
NullEditor == <<>>

\* An editor of a document whose uri.scheme is not 'file'
UntitledEditor == <<"u", "n", "t", "i", "t", "l", "e", "d", ":", "1">>

\* clearTimeout(handle)
ClearTimeout(pending, handle) == {t \in pending : t.id # handle}

\* triggerValidation(editor), with the default delay
TriggerValidation(editor) ==
    /\ timerCall.count < MaxTriggers
    /\ IF editor = NullEditor
       THEN /\ shown' = <<>>
            /\ reported' = NoReport
            /\ UNCHANGED <<validationTimeout, timers>>
       ELSE IF editor = UntitledEditor
       THEN UNCHANGED <<validationTimeout, timers, shown, reported>>
       ELSE /\ timers' = ClearTimeout(timers, validationTimeout)
                             \cup {[id |-> timerCall.count + 1, editor |-> editor]}
            /\ validationTimeout' = timerCall.count + 1
            /\ UNCHANGED <<shown, reported>>
    /\ timerCall' = [op |-> "triggerValidation",
                     editor |-> editor,
                     last |-> IF editor \in {NullEditor, UntitledEditor}
                              THEN timerCall.last ELSE editor,
                     reset |-> editor = NullEditor,
                     count |-> timerCall.count + 1]
    /\ UNCHANGED <<disk, importsCache, config, validationCache, directCall, directResult,
                   uncaught, docVersion>>
    /\ UNCHANGED <<cycleVars, ruleVars, buildVars, aiVars, lruVars, parserVars, metricsVars>>

\* The delay of a pending timer has passed: its callback runs validateFile
\* for the editor it was set for, which ends in _updateUI unless it throws
TimerFires(t) ==
    /\ t \in timers
    /\ timers' = timers \ {t}
    /\ validateFile(t.editor, docVersion[t.editor])
    /\ shown' = IF uncaught' THEN shown ELSE t.editor
    /\ timerCall' = [timerCall EXCEPT !.op = "validateFile", !.editor = t.editor]
    /\ UNCHANGED validationTimeout
    /\ UNCHANGED <<cycleVars, ruleVars, buildVars, aiVars, lruVars, parserVars, metricsVars>>

InitTimer == InitVersions

NextTimer ==
    \/ \E editor \in DOMAIN disk \cup {NullEditor, UntitledEditor} : TriggerValidation(editor)
    \/ \E t \in timers : TimerFires(t)

SpecTimer == InitTimer /\ [][NextTimer]_vars

----------------------------------------------------------------------------
(* MetricsCalculator *)

\* String.prototype.endsWith
EndsWith(a, b) == Len(b) <= Len(a) /\ SubSeq(a, Len(a) - Len(b) + 1, Len(a)) = b

\* _normalizePath(filePath)
normalizePath(filePath) == StripExtension(NormalizePath(filePath))

\* _findMatchingFile(normalizedPath, filePaths), <<>> for null
findMatchingFile(normalizedPath, filePaths) ==
    LET matches(i) ==
            \/ EndsWith(normalizePath(filePaths[i]), normalizedPath)
            \/ EndsWith(normalizedPath, normalizePath(filePaths[i]))
    IN  IF \E i \in 1..Len(filePaths) : matches(i)
        THEN filePaths[CHOOSE i \in 1..Len(filePaths) :
                           matches(i) /\ \A j \in 1..(i - 1) : ~matches(j)]
        ELSE <<>>

\* _getFileDependencies(filePath): the paths of the imports the parser finds
getFileDependencies(d, filePath) ==
    IF Readable(d, filePath) THEN d[filePath].imports ELSE <<>>

\* this.dependentMap.get(filePath)?.length after the second pass: one push
\* for every import of every file that findMatchingFile associates with it
DependentCount(d, filePaths, filePath) ==
    Cardinality({pair \in UNION {{<<i, k>> : k \in 1..Len(getFileDependencies(d, filePaths[i]))} :
                                     i \in 1..Len(filePaths)} :
                    findMatchingFile(
                        normalizePath(getFileDependencies(d, filePaths[pair[1]])[pair[2]]),
                        filePaths) = filePath})

\* analyze(filePaths), for file paths that are all different: couplingData
analyzeMetrics(d, filePaths) ==
    [filePath \in {filePaths[i] : i \in 1..Len(filePaths)} |->
        [afferent |-> DependentCount(d, filePaths, filePath),
         efferent |-> Len(getFileDependencies(d, filePath))]]

----------------------------------------------------------------------------
(* SpecMetrics: analyze on the files of a workspace folder *)

\* The workspace folder /w with a.js and b.js, and b.js in its folder s
MetricsFiles ==
    <<<<"/", "w", "/", "a", ".", "j", "s">>,
      <<"/", "w", "/", "b", ".", "j", "s">>,
      <<"/", "w", "/", "s", "/", "b", ".", "j", "s">>>>

MetricsTexts == {<<>>, <<ImportA>>, <<ImportB>>, <<ImportA, ImportB>>}

\* Some of the files are there, each with one of the texts
MetricsDisks ==
    UNION {[S -> [imports : MetricsTexts, mtime : {1}, state : {"ok"}]] :
               S \in SUBSET {MetricsFiles[i] : i \in 1..Len(MetricsFiles)}}

\* metricsCalculator.analyze(filePaths) on the pending list
AnalyzeMetrics ==
    /\ metricsCall.op = "pending"
    /\ couplingData' = analyzeMetrics(disk, metricsCall.filePaths)
    /\ metricsCall' = [metricsCall EXCEPT !.op = "analyze"]
    /\ UNCHANGED <<cycleVars, directVars, ruleVars, buildVars, aiVars, lruVars, timerVars,
                   parserVars>>

InitMetrics ==
    /\ disk \in MetricsDisks
    /\ metricsCall = [op |-> "pending", filePaths |-> MetricsFiles]
    /\ couplingData = [p \in {} |-> <<>>]
    /\ importsCache = <<>>
    /\ config = DefaultConfig
    /\ validationCache = EmptyValidationCache
    /\ directCall = NoDirectCall
    /\ directResult = NoDirectCycle
    /\ reported = NoReport
    /\ uncaught = FALSE
    /\ docVersion = FirstVersions(disk)
    /\ LruIdle /\ TimerIdle /\ ParserIdle
    /\ CycleIdle /\ RuleIdle

NextMetrics == AnalyzeMetrics

SpecMetrics == InitMetrics /\ [][NextMetrics]_vars

----------------------------------------------------------------------------
(* SpecRing: the detector on a ring of 1..MaxRing files *)

InitRing ==
    /\ \E n \in 1..MaxRing :
           /\ dependencyGraph = Ring(n)
           /\ graphKeys = RingKeys(n)
    /\ deepCycleMaxDepth = DepthSettingDefault
    /\ lastCall = NoCall
    /\ deepResult = NoCycle
    /\ allCycles = <<>>
    /\ BuildIdle
    /\ AiIdle
    /\ DirectIdle
    /\ RuleIdle
    /\ UtilIdle

NextRing ==
    \/ \E f \in DOMAIN dependencyGraph \cup {MissingFile} : DetectDeepCycle(f)
    \/ \E d \in DepthSettingMin..DepthSettingMax : ChangeDepthSetting(d)

SpecRing == InitRing /\ [][NextRing]_vars

----------------------------------------------------------------------------
(* SpecChord: the detector on a ring of 1..MaxRing files in which one file *)
(* imports one more file, before or after its import of the next file      *)

\* The ring of n files with the import of file j added to file i, as the
\* first or as the last import of the file
RingWithChord(n, i, j, first) ==
    [p \in {File(k) : k \in 1..n} |->
        IF p = File(i)
        THEN IF first THEN <<File(j)>> \o Ring(n)[p] ELSE Ring(n)[p] \o <<File(j)>>
        ELSE Ring(n)[p]]

InitChord ==
    /\ \E n \in 1..MaxRing : \E i, j \in 1..n : \E first \in BOOLEAN :
           /\ dependencyGraph = RingWithChord(n, i, j, first)
           /\ graphKeys = RingKeys(n)
    /\ deepCycleMaxDepth = DepthSettingDefault
    /\ lastCall = NoCall
    /\ deepResult = NoCycle
    /\ allCycles = <<>>
    /\ BuildIdle
    /\ AiIdle
    /\ DirectIdle
    /\ RuleIdle
    /\ UtilIdle

NextChord == \E f \in DOMAIN dependencyGraph : DetectDeepCycle(f)

SpecChord == InitChord /\ [][NextChord]_vars

----------------------------------------------------------------------------
(* SpecDfs: the detector on every graph of at most NumFiles files and      *)
(* MaxEdges edges                                                          *)

InitDfs == CycleIdle /\ DirectIdle /\ RuleIdle /\ UtilIdle

NextDfs ==
    \/ \E i \in 1..NumFiles :
           \E deps \in EditedDeps(dependencyGraph, i) : ProcessFile(i, deps)
    \/ \E f \in SmallTargets \cup {MissingFile} : DetectDeepCycle(f)
    \/ GetAllCycles

SpecDfs == InitDfs /\ [][NextDfs]_vars

----------------------------------------------------------------------------
(* Vocabulary of the claims about the DeepCycleDetector *)

Called(op) == lastCall.op = op

\* The number of files of the ring of SpecRing
RingSize == Len(graphKeys)

\* The ring of n files walked from file s back to file s
RingPath(n, s) == [k \in 1..(n + 1) |-> File(((s + k - 2) % n) + 1)]

\* The files a file depends on, files identified up to spelling
FileSucc(g, u) ==
    UNION {{NormalizeFile(g[k][i]) : i \in 1..Len(g[k])} :
              k \in {x \in DOMAIN g : NormalizeFile(x) = u}}

RECURSIVE ReachFrom(_, _)
ReachFrom(g, S) ==
    LET T == S \cup UNION {FileSucc(g, u) : u \in S}
    IN  IF T = S THEN S ELSE ReachFrom(g, T)

\* Some file reachable from s lies on a cycle of the graph
CycleReachable(g, s) ==
    \E u \in ReachFrom(g, {NormalizeFile(s)}) : u \in ReachFrom(g, FileSucc(g, u))

\* The loop a returned path closes: from the first occurrence of its last
\* file up to, not including, the last element
LoopOf(c) ==
    LET n == Len(c)
        first == CHOOSE i \in 1..n :
                    /\ NormalizeFile(c[i]) = NormalizeFile(c[n])
                    /\ \A j \in 1..(i - 1) : NormalizeFile(c[j]) # NormalizeFile(c[n])
    IN  [k \in 1..(n - first) |-> NormalizeFile(c[first + k - 1])]

\* Two loops are the same cycle when one is a rotation of the other
SameLoop(a, b) ==
    /\ Len(a) = Len(b)
    /\ \E k \in 0..(Len(a) - 1) :
           \A i \in 1..Len(a) : a[i] = b[((i - 1 + k) % Len(a)) + 1]

----------------------------------------------------------------------------
(* Claims *)

\* C1: on a ring of n files, 2 <= n <= 10, detectDeepCycle(startFile) returns
\* hasCycle = true, depth = n and the path that walks the ring from startFile
\* back to startFile.
C1_RingCycleReported ==
    (Called("detectDeepCycle") /\ lastCall.file \in DOMAIN dependencyGraph
        /\ RingSize >= 2 /\ RingSize <= 10)
    => deepResult = [hasCycle |-> TRUE,
                     cycle |-> RingPath(RingSize, lastCall.file[1]),
                     depth |-> RingSize]

C1_Witness ==
    /\ Called("detectDeepCycle")
    /\ RingSize = 10
    /\ lastCall.file = File(4)
    /\ deepResult.hasCycle
    /\ deepResult.depth = 10
    /\ deepResult.cycle[1] = File(4) /\ deepResult.cycle[2] = File(5)
    /\ deepResult.cycle[11] = File(4)

\* C2: every cycle detectDeepCycle(startFile) returns starts at startFile and
\* ends at the same file.
C2_CycleEndsAtStart ==
    (Called("detectDeepCycle") /\ deepResult.hasCycle)
    => /\ deepResult.cycle[1] = lastCall.file
       /\ NormalizeFile(deepResult.cycle[Len(deepResult.cycle)])
              = NormalizeFile(lastCall.file)

\* C3: when no cycle is reachable from startFile (an acyclic chain, or a
\* startFile with no entry in the graph), detectDeepCycle(startFile) returns
\* none.
C3_NoCycleReturnsNone ==
    (Called("detectDeepCycle") /\ ~CycleReachable(dependencyGraph, lastCall.file))
    => deepResult = NoCycle

C3_Witness ==
    /\ Called("detectDeepCycle")
    /\ lastCall.file = File(1)
    /\ DOMAIN dependencyGraph = {File(1), File(2)}
    /\ dependencyGraph[File(1)] = <<File(2)>>
    /\ dependencyGraph[File(2)] = <<File(3)>>
    /\ ~CycleReachable(dependencyGraph, File(1))
    /\ deepResult = NoCycle

\* C4: the depth limit is the setting deepCycleMaxDepth (2 to 20): with the
\* setting at d, detectDeepCycle reports a ring of n <= d files through
\* startFile, so with d = 20 rings of up to 20 files are reported.
C4_LimitIsTheSetting ==
    (Called("detectDeepCycle") /\ lastCall.file \in DOMAIN dependencyGraph
        /\ RingSize >= 2 /\ RingSize <= deepCycleMaxDepth)
    => (deepResult.hasCycle /\ deepResult.depth = RingSize)

\* C5: no two entries of the list getAllCycles() returns describe the same
\* cycle.
C5_AllCyclesDistinct ==
    Called("getAllCycles")
    => \A i, j \in 1..Len(allCycles) :
           i < j => ~SameLoop(LoopOf(allCycles[i].cycle), LoopOf(allCycles[j].cycle))
----------------------------------------------------------------------------
(* Direct cycles *)

\* The positions of document `from` whose import string, written without
\* extension, names the file `to` of the disk
ImportsOf(d, from, to) ==
    {i \in 1..Len(d[from].imports) :
        /\ IsRelativeImport(d[from].imports[i])
        /\ PathResolve(Dirname(from), d[from].imports[i]) = StripExtension(to)}

\* Two paths denote the same file: equal after lower-casing and slash
\* normalization, or one equal to the other with its extension stripped
DenoteSameFile(a, b) ==
    LET na == NormalizePath(a)
        nb == NormalizePath(b)
    IN  na = nb \/ na = StripExtension(nb) \/ StripExtension(na) = nb

\* Some relative import of the file `target` resolves to `source`
HasImportBack(d, source, target) ==
    /\ target \in DOMAIN d
    /\ \E i \in 1..Len(d[target].imports) :
           /\ IsRelativeImport(d[target].imports[i])
           /\ DenoteSameFile(PathResolve(Dirname(target), d[target].imports[i]), source)

\* C6: when the validated file A imports file B as './B', B imports A the
\* same way, both are on disk and checkCycles is on, the violations
\* reported for A hold a circular-dependency violation on A's import of B.
C6_DirectCycleReported ==
    (directCall.op = "validateFile" /\ config.checkCycles) =>
        \A b \in DOMAIN disk \ {directCall.source} :
            \A i \in ImportsOf(disk, directCall.source, b) :
                ImportsOf(disk, b, directCall.source) # {} =>
                    \E k \in 1..Len(reported.violations) :
                        /\ reported.violations[k].kind = "cycle"
                        /\ reported.violations[k].imp = i

\* C7: checkCycle(A, A) reports a cycle, whatever the path A, the caches
\* and the files are.
C7_SelfImportAlwaysReported ==
    (directCall.op = "checkCycle" /\ directCall.source = directCall.target) =>
        directResult.isCycle

\* C8: checkCycle(source, target) reports a cycle only if source and target
\* denote the same file or some relative import of target resolves to source.
C8_ReportsOnlyRealCycles ==
    (directCall.op = "checkCycle" /\ directResult.isCycle) =>
        \/ DenoteSameFile(directCall.source, directCall.target)
        \/ HasImportBack(disk, directCall.source, directCall.target)

----------------------------------------------------------------------------
(* Rules and layers *)

\* The rule applies to the source and one of its disallowed globs matches
\* the target, separators of either style
Fires(rule, source, target) ==
    /\ MinimatchBase(NormalizeSlashes(source), rule.source)
    /\ rule.hasDisallow
    /\ \E k \in 1..Len(rule.disallow) :
           MinimatchBase(NormalizeSlashes(target), rule.disallow[k])

\* The layers, by position from 1, whose pattern matches the file
LayersOf(file, layers) ==
    {i \in 1..Len(layers) : Minimatch(NormalizeSlashes(file), layers[i].pattern)}

Min(S) == CHOOSE x \in S : \A y \in S : x <= y

IsLayerViolation(r) == r.isViolation /\ r.message[1] = "Layer Violation:"

\* C9: when no rule fires, validate returns a layer violation if and only
\* if source and target both match some layer and the first layer matching
\* the source comes strictly before the first layer matching the target.
C9_LayerViolationIff ==
    (/\ ruleCall.op = "validate"
     /\ \A i \in 1..Len(config.rules) :
            ~Fires(config.rules[i], ruleCall.source, ruleCall.target)) =>
        LET sourceLayers == LayersOf(ruleCall.source, config.layers)
            targetLayers == LayersOf(ruleCall.target, config.layers)
        IN  /\ IsLayerViolation(ruleResult) <=>
                   /\ sourceLayers # {}
                   /\ targetLayers # {}
                   /\ Min(sourceLayers) < Min(targetLayers)
            /\ ruleResult.isViolation => IsLayerViolation(ruleResult)

\* An inner layer importing an outer one is reported although the file of
\* the outer layer also matches a later, catch-all layer, and rules are
\* configured that do not fire
C9_Witness ==
    /\ ruleCall.op = "validate"
    /\ Len(config.rules) > 0
    /\ \A i \in 1..Len(config.rules) :
           ~Fires(config.rules[i], ruleCall.source, ruleCall.target)
    /\ Cardinality(LayersOf(ruleCall.target, config.layers)) > 1
    /\ ruleResult = [isViolation |-> TRUE,
                     message |-> <<"Layer Violation:", "Domain", "Presentation">>]

\* The message of a firing rule: its own, or the one built from the source
\* and the first disallowed glob that matches
MessageOf(rule, source, target) ==
    IF rule.message # "" THEN <<rule.message>>
    ELSE LET k == Min({j \in 1..Len(rule.disallow) :
                          MinimatchBase(NormalizeSlashes(target), rule.disallow[j])})
         IN  <<"Violation:", NormalizeSlashes(source), "cannot import from", rule.disallow[k]>>

\* C10: when some rule fires, validate returns the violation of the first
\* such rule in list order, whatever the layers are; when none fires, it
\* returns what it returns with no rules configured.
C10_RulesBeforeLayers ==
    ruleCall.op = "validate" =>
        LET firing == {i \in 1..Len(config.rules) :
                          Fires(config.rules[i], ruleCall.source, ruleCall.target)}
        IN  IF firing # {}
            THEN ruleResult =
                     [isViolation |-> TRUE,
                      message |-> MessageOf(config.rules[Min(firing)],
                                            ruleCall.source, ruleCall.target)]
            ELSE ruleResult =
                     validate(ruleCall.source, ruleCall.target, <<>>, config.layers)

\* Two rules fire on an import that the layers forbid as well, and the
\* result carries the message of the first rule
C10_Witness ==
    /\ ruleCall.op = "validate"
    /\ Len(config.rules) = 2
    /\ config.rules[1] # config.rules[2]
    /\ \A i \in 1..2 : Fires(config.rules[i], ruleCall.source, ruleCall.target)
    /\ validate(ruleCall.source, ruleCall.target, <<>>, config.layers).isViolation
    /\ ruleResult = [isViolation |-> TRUE,
                     message |-> <<"pages must not import database">>]

----------------------------------------------------------------------------
(* Failures and frame conditions of validation *)

\* C11: a rule or layer whose pattern cannot be evaluated does not end the
\* analysis pass: validateFile completes, stores and reports its results.
C11_MalformedEntryContained ==
    directCall.op = "validateFile" =>
        /\ ~uncaught
        /\ directCall.source \in DOMAIN validationCache

----------------------------------------------------------------------------
(* Encapsulation *)

\* The path names an index file, written with or without its extension
IsIndexTarget(path) ==
    \/ Basename(path) = IndexName
    \/ StripExtension(Basename(path)) = IndexName

\* The path is a directory of the disk
IsDirectoryOn(d, path) == \E f \in DOMAIN d : Dirname(f) = path

\* The directory holds an index file with one of the fixed extensions
HasIndexFile(d, dir) ==
    \E ext \in IndexExtensions : PathJoin(dir, IndexName \o <<".">> \o ext) \in DOMAIN d

\* C12: checkEncapsulation reports a violation exactly when the target
\* names a file other than the index file inside a directory that holds an
\* index file; an import of the index file, with or without extension, or of
\* the directory itself is never flagged.
C12_EncapsulationExactly ==
    ruleCall.op = "checkEncapsulation" =>
        (ruleResult.isViolation <=>
            /\ ~IsIndexTarget(ruleCall.target)
            /\ ~IsDirectoryOn(disk, ruleCall.target)
            /\ HasIndexFile(disk, Dirname(ruleCall.target)))

----------------------------------------------------------------------------
(* Semantic classifier *)

\* C13: analyze follows the flow matrix of the specification: a Presentation
\* file importing a Data file is allowed, a Data file importing a
\* Presentation file is suspicious, and no verdict is given when either
\* side is Unknown.
C13_FlowMatrix ==
    aiCall.op = "analyze" =>
        LET sourceConcept == classify(aiCall.source)
            targetConcept == classify(aiCall.target)
        IN  /\ (sourceConcept = "Presentation" /\ targetConcept = "Data")
                   => aiResult = NoAdvice
            /\ (sourceConcept = "Data" /\ targetConcept = "Presentation")
                   => aiResult.flagged
            /\ (sourceConcept = "Unknown" \/ targetConcept = "Unknown")
                   => aiResult = NoAdvice

----------------------------------------------------------------------------
(* Claims about DeepCycleDetector.buildGraph *)

\* C14: after any sequence of buildGraph calls and changes of the file
\* system, a file that was missing, unreadable or larger than the maximum
\* size when the latest buildGraph that listed it processed it has no entry
\* in the dependency graph.  The code violates it: _processFileForGraph
\* returns at each of these tests and leaves the entry of an earlier pass.
C14_SkippedFileAbsent == \A f \in skippedFiles : f \notin DOMAIN dependencyGraph

\* A pass over a list that a pass went through already, with no file written
\* or deleted since that pass began
RepeatedPass ==
    /\ buildCall.op \in {"running", "done"}
    /\ buildCall.repeated
    /\ ~buildCall.disturbed

DroppedBuild == buildCall'.dropped /\ ~buildCall.dropped

\* A call of learn arrives while isLearning is set
DroppedLearn == aiCall'.dropped /\ ~aiCall.dropped

\* isBuilding is set exactly while one buildGraph runs, isLearning exactly
\* while one learn runs, and no more than one of each runs
OneOfEach ==
    /\ activeBuilds \in {0, 1}
    /\ activeLearns \in {0, 1}
    /\ isBuilding <=> activeBuilds = 1
    /\ isLearning <=> activeLearns = 1

\* C16: at most one buildGraph and at most one learn is active at any time;
\* a call that arrives while its flag is set changes neither the graph nor
\* the model and adds nothing to the files the running pass goes through;
\* the flag is false whenever no pass runs, also after a pass that an
\* exception ended.
C16_SingleFlight ==
    /\ []OneOfEach
    /\ [][/\ DroppedBuild =>
                UNCHANGED <<dependencyGraph, graphKeys, fileTimestamps, buildPending,
                            isBuilding, activeBuilds, aiVars>>
          /\ DroppedLearn =>
                UNCHANGED <<vectors, importCounts, statsModel, learnPending,
                            isLearning, activeLearns, dependencyGraph, graphKeys,
                            fileTimestamps>>]_vars

\* C16 witness: a buildGraph call was dropped while a pass runs, after a
\* learn that ended with an exception and left isLearning false
C16_Witness ==
    /\ isBuilding
    /\ buildCall.dropped
    /\ buildCall.op = "running"
    /\ aiCall.op = "threw"
    /\ ~isLearning

----------------------------------------------------------------------------
(* Claims about ValidationService.validateFile *)

\* C17: a validateFile call leaves the dependency graph, the term vectors,
\* the statistics model and the imports cache of the GraphAnalyzer as it
\* found them.  The code violates it: checkCycle reads the imports of the
\* target through _getFileImports, which stores them in the cache and moves
\* the entries it reads to the recent end.
C17_ValidationReadOnly ==
    [][directCall'.op = "validateFile" =>
          UNCHANGED <<dependencyGraph, graphKeys, vectors, statsModel, importsCache>>]_vars

\* What validateFile reports for the document when it runs the analyses
FreshAnalysis(docPath) ==
    RunAnalysis(disk, importsCache, config, docPath, disk[docPath].imports)

\* The validation cache holds an entry for the document at its version
EntryCurrent(docPath) ==
    /\ docPath \in DOMAIN validationCache
    /\ validationCache[docPath].version = docVersion[docPath]

\* C18: a validateFile for a document whose version is the version of its
\* cache entry reports the cached violations and stats, runs no analysis (the
\* imports cache, which the cycle check goes through, is untouched) and leaves
\* the validation cache as it is; for a document without entry or at another
\* version it runs the analyses, reports their result and stores it with the
\* version of the document, leaving the entries of the other documents alone.
C18_CacheKeyedByVersion ==
    [][directCall'.op = "validateFile" =>
          LET docPath == directCall'.source
          IN  IF EntryCurrent(docPath)
              THEN /\ reported' = [violations |-> validationCache[docPath].violations,
                                   stats |-> validationCache[docPath].stats]
                   /\ UNCHANGED <<validationCache, importsCache>>
              ELSE LET fresh == FreshAnalysis(docPath)
                   IN  /\ reported' = [violations |-> fresh.violations, stats |-> fresh.stats]
                       /\ importsCache' = fresh.cache
                       /\ DOMAIN validationCache' = DOMAIN validationCache \cup {docPath}
                       /\ validationCache'[docPath] =
                              [version |-> docVersion[docPath],
                               violations |-> fresh.violations, stats |-> fresh.stats]
                       /\ \A p \in DOMAIN validationCache \ {docPath} :
                              validationCache'[p] = validationCache[p]]_vars

\* C18 witness: validateFile has reported, for an edited document whose
\* entry is current, violations that running the analyses would not give
C18_Witness ==
    /\ directCall.op = "validateFile"
    /\ docVersion[directCall.source] > 1
    /\ EntryCurrent(directCall.source)
    /\ reported.violations = validationCache[directCall.source].violations
    /\ reported.violations # FreshAnalysis(directCall.source).violations

----------------------------------------------------------------------------
(* Claims about the AIKernel *)

\* The model was learned from a project in which one file has OutlierCount
\* imports and every other file OrdinaryCount
OutlierProjectLearned ==
    /\ statsModel.learned
    /\ statsModel = ComputeStats(importCounts)
    /\ \E k \in 1..Len(importCounts) :
           importCounts = OutlierCounts(Len(importCounts), k)

\* detectAnomaly has answered for a content with count imports
Detected(count) == aiCall.op = "detectAnomaly" /\ CountImports(aiCall.source) = count

\* The answer detectAnomaly gives for the file that stands out, and for an
\* ordinary file, as the claim has it
OutlierAnswers ==
    /\ Detected(OutlierCount) =>
           aiResult.flagged /\ ZScoreAbove(aiResult.score, ANOMALY_THRESHOLD)
    /\ Detected(OrdinaryCount) => ~aiResult.flagged

\* The fewest files for which the file that stands out lies more than
\* ANOMALY_THRESHOLD standard deviations above the mean: among n files its
\* zScore is sqrt(n - 1)
FewestFiles == ANOMALY_THRESHOLD * ANOMALY_THRESHOLD + 2

\* C19, as stated: for a learned project of any number of files, all with 2
\* imports except one with 50, detectAnomaly reports isAnomaly with a zScore
\* above 3 for a content of 50 imports and no anomaly for one of 2 imports.
\* Violated by the projects of no more than ten files.
C19_OutlierFlagged == OutlierProjectLearned => OutlierAnswers

\* C19, amended: the same for the projects of at least eleven files.
C19_OutlierFlaggedFromEleven ==
    (OutlierProjectLearned /\ Len(importCounts) >= FewestFiles) => OutlierAnswers

\* C19 witness: detectAnomaly has flagged the content of 50 imports on the
\* model of a project of eleven files
C19_Witness ==
    /\ OutlierProjectLearned
    /\ Len(importCounts) = FewestFiles
    /\ Detected(OutlierCount)
    /\ aiResult.flagged

\* C20: after every learning pass the standard deviation of the model is at
\* least 1: it is the default 1, or sqrt(n * sumSquares - sum * sum) / n is
\* at least 1.  The code violates it: stdDev || 1 replaces a stdDev of zero
\* only.
C20_StdDevAtLeastOne ==
    (statsModel.learned /\ aiCall.op = "learned") =>
        \/ StdDevIsDefault(statsModel)
        \/ ScaledVariance(statsModel) >= statsModel.n * statsModel.n

----------------------------------------------------------------------------
(* Claims about the paths of the DeepCycleDetector *)

RECURSIVE StepsFrom(_, _, _)
\* The files reached from the set S by 0 to k further imports
StepsFrom(g, S, k) ==
    IF k = 0 THEN S
    ELSE S \cup StepsFrom(g, UNION {FileSucc(g, u) : u \in S}, k - 1)

\* s lies on a cycle of at least 2 and at most k edges: a file that s
\* imports, other than s, leads back to s by at most k - 1 imports
OnCycleWithin(g, s, k) ==
    \E t \in FileSucc(g, NormalizeFile(s)) \ {NormalizeFile(s)} :
        NormalizeFile(s) \in StepsFrom(g, FileSucc(g, t), k - 2)

\* C23: with the depth limit at its default of 10, detectDeepCycle(startFile)
\* reports a cycle whenever startFile lies on a cycle of at most 10 edges
\* (here: of 2 to 10 edges).  The code violates it: a file first reached at
\* the cutoff depth is marked visited, and the shorter way to it is then
\* not walked.
C23_ShortCycleFound ==
    (/\ Called("detectDeepCycle")
     /\ deepCycleMaxDepth = DepthSettingDefault
     /\ OnCycleWithin(dependencyGraph, lastCall.file, DepthSettingDefault))
    => deepResult.hasCycle

\* The path c is a walk of the graph g that begins with s and ends at a file
\* it has passed already, files identified up to spelling; depth is its
\* number of edges and it has at least 3 elements
CycleIsWalk(g, s, c, depth) ==
    /\ Len(c) >= 3
    /\ c[1] = s
    /\ \A i \in 1..(Len(c) - 1) :
           \E k \in 1..Len(GraphGet(g, c[i])) : GraphGet(g, c[i])[k] = c[i + 1]
    /\ \E i \in 1..(Len(c) - 1) : NormalizeFile(c[i]) = NormalizeFile(c[Len(c)])
    /\ depth = Len(c) - 1

\* C28: every path detectDeepCycle(startFile) returns is a walk of the graph
\* from startFile to a file met before, of at least 3 elements, its depth is
\* its number of edges, and the depth is no more than the depth limit, the
\* setting deepCycleMaxDepth.  The code violates the last part: the limit of
\* the search is CONFIG.MAX_DEPTH whatever the setting.
C28_CycleIsBoundedWalk ==
    (Called("detectDeepCycle") /\ deepResult.hasCycle)
    => /\ CycleIsWalk(dependencyGraph, lastCall.file, deepResult.cycle, deepResult.depth)
       /\ deepResult.depth <= deepCycleMaxDepth

----------------------------------------------------------------------------
(* Claims about DeepCycleDetector._resolveImportPath *)

\* The path _resolveImportPath was called for: path.resolve(fromDir, importPath)
ResolveBase == PathResolve(buildCall.files[1], buildCall.files[2])

\* The index file of the directory with the first extension of the list for
\* which there is one
FirstIndexFile(d, dir) ==
    LET indexPaths ==
            [i \in 1..Len(ResolveExtensions) |->
                PathJoin(dir, IndexName \o ResolveExtensions[i])]
        i == CHOOSE k \in 1..Len(indexPaths) :
                 /\ indexPaths[k] \in DOMAIN d
                 /\ \A j \in 1..(k - 1) : indexPaths[j] \notin DOMAIN d
    IN  indexPaths[i]

\* The path names a directory that holds an index file, and no file named
\* by the path with an extension of the list is there
NamesIndexedDirectory(d, base) ==
    /\ \E i \in 1..Len(ResolveExtensions) :
           PathJoin(base, IndexName \o ResolveExtensions[i]) \in DOMAIN d
    /\ \A i \in 1..Len(ResolveExtensions) : (base \o ResolveExtensions[i]) \notin DOMAIN d

\* C27: _resolveImportPath returns an existing file or null, and for a path
\* that names a directory with an index file, and no file of that name with
\* an extension, the index file.  The code violates it: the last extension of
\* the list is the empty one, fs.existsSync holds for the directory itself,
\* and the directory is returned before any index file is looked for.
C27_ResolvesToFile ==
    buildCall.op = "resolveImportPath" =>
        /\ resolvedPath # <<>> => resolvedPath \in DOMAIN disk
        /\ NamesIndexedDirectory(disk, ResolveBase) =>
               resolvedPath = FirstIndexFile(disk, ResolveBase)

----------------------------------------------------------------------------
(* Claims about the coherence of the dependency graph *)

\* What _processFileForGraph computes for the file from the disk as it is:
\* the relative imports of its content that resolve to something there
FreshImports(d, filePath) == ResolvedImports(d, Dirname(filePath), d[filePath].imports, 1)

\* buildGraph has returned from a pass over its list and no file was written
\* or deleted since the call began
ReturnedUndisturbed ==
    /\ buildCall.op = "done"
    /\ ~buildCall.disturbed

\* C24: when buildGraph(F) has returned, every file among the first
\* MAX_FILES_PER_CHECK of F that exists, is readable and within the size
\* limit has the adjacency list a fresh computation gives at that moment.
\* The code violates it: a file whose modification time is the stored one is
\* skipped, so its list keeps the targets as they resolved when it was parsed,
\* whatever was created or deleted since.
C24_GraphCoherent ==
    ReturnedUndisturbed =>
        \A i \in 1..Len(Slice(buildCall.files, MAX_FILES_PER_CHECK)) :
            LET f == buildCall.files[i]
            IN  ~Unavailable(disk, f) =>
                    /\ f \in DOMAIN dependencyGraph
                    /\ dependencyGraph[f] = FreshImports(disk, f)

----------------------------------------------------------------------------
(* Claims about LRUCache *)

\* The entries the last set removed: entries of another key that were in the
\* cache before and are not after
Evicted == {k \in KeysOf(lruCall.before) \ {lruCall.key} : k \notin KeysOf(lruCache)}

\* C29: set(key, val) removes an entry of another key only when key is not
\* in the cache and the cache holds limit entries.  The code violates it: the
\* oldest entry is deleted whenever the cache holds limit entries, also when
\* key is in the cache and the set only replaces its value.
C29_EvictsOnlyForRoom ==
    (lruCall.op = "set" /\ Evicted # {}) =>
        /\ ~lruCall.hit
        /\ Len(lruCall.before) >= lruLimit

\* The position of the key in the order of use
UsePosition(uses, key) == CHOOSE i \in 1..Len(uses) : uses[i] = key

\* The key is the least recently used of the keys the cache held
LeastRecentlyUsed(key) ==
    /\ \E i \in 1..Len(lruCall.usesBefore) : lruCall.usesBefore[i] = key
    /\ \A k \in KeysOf(lruCall.before) :
           UsePosition(lruCall.usesBefore, key) <= UsePosition(lruCall.usesBefore, k)

\* C30: after any sequence of get, set and has the cache holds no more than
\* limit entries, and an entry that a set evicts is the least recently used
\* one, where a get that hits and a set are uses of their key and has is not.
C30_EvictsLeastRecentlyUsed ==
    /\ Len(lruCache) <= lruLimit
    /\ lruCall.op = "set" => \A k \in Evicted : LeastRecentlyUsed(k)

\* C30 witness: a set of a new key has evicted an entry from a full cache of
\* more than one entry after a get had moved an older entry to the newest
\* position
C30_Witness ==
    /\ lruCall.op = "set"
    /\ Evicted # {}
    /\ ~lruCall.hit
    /\ lruCall.refreshed
    /\ Len(lruCall.before) = lruLimit
    /\ lruLimit > 1

----------------------------------------------------------------------------
(* Claims about validation after a change of the configuration *)

\* The validateFile that onDidChangeConfiguration triggers for the active
\* document: the call that follows the change of the setting
ValidatesAfterSettingChange ==
    /\ directCall.op = "changeSetting"
    /\ directCall'.op = "validateFile"
    /\ ~uncaught'

\* C25: the validation a change of the configuration triggers reports the
\* violations of the new configuration, also for a document whose version is
\* that of its last validation.  The code violates it: validateFile finds the
\* cache entry of the unchanged version and reports the violations computed
\* under the configuration of that earlier validation.
C25_ValidatedUnderNewConfig ==
    [][ValidatesAfterSettingChange =>
          reported'.violations = FreshAnalysis(directCall'.source).violations]_vars

----------------------------------------------------------------------------
(* Claims about the validation timer *)

\* C26: after triggerValidation(null) the status bar and the sidebar stay
\* reset until triggerValidation is called for an editor; no more than one
\* validation timer is pending; and the validateFile a timer runs is for the
\* editor of the last trigger that set one.  The code violates the first part:
\* triggerValidation returns for a missing editor before it reaches
\* clearTimeout, so the timer pending for the previous editor fires and
\* _updateUI writes over the reset views.
C26_ResetStays ==
    /\ timerCall.reset => shown = <<>>
    /\ Cardinality(timers) <= 1
    /\ timerCall.op = "validateFile" => timerCall.editor = timerCall.last

----------------------------------------------------------------------------
(* Claims about ImportParser *)

\* C21: parse returns its records in document order, the index of a record
\* never below the index of the record before it, and no two records have
\* the same index and path.  The code violates the order: the records of the
\* first pattern all come before those of the second, wherever they are in
\* the text.
C21_DocumentOrder ==
    parseCall.op = "parse" =>
        /\ \A i \in 1..(Len(parsedImports) - 1) :
               parsedImports[i].index <= parsedImports[i + 1].index
        /\ \A i, j \in 1..Len(parsedImports) :
               (/\ parsedImports[i].index = parsedImports[j].index
                /\ parsedImports[i].path = parsedImports[j].path) => i = j

----------------------------------------------------------------------------
(* Claims about MetricsCalculator *)

\* File g depends on file f: a relative import of g denotes f
DependsOn(d, g, f) ==
    /\ Readable(d, g)
    /\ \E k \in 1..Len(d[g].imports) :
           /\ IsRelativeImport(d[g].imports[k])
           /\ ResolveImportPath(d, Dirname(g), d[g].imports[k]) = f

\* C22: after analyze(filePaths) the afferent coupling of each file is the
\* number of other files of filePaths that depend on it.  The code violates
\* it: the import './b' of /w/a.js is compared as text with the ends of the
\* normalized file paths, '/w/b' does not end with './b', and /w/b.js gets no
\* dependent.
C22_AfferentCountsDependents ==
    metricsCall.op = "analyze" =>
        \A i \in 1..Len(metricsCall.filePaths) :
            LET f == metricsCall.filePaths[i]
                others == {metricsCall.filePaths[j] : j \in 1..Len(metricsCall.filePaths)} \ {f}
            IN  couplingData[f].afferent = Cardinality({g \in others : DependsOn(disk, g, f)})

====
